---- MODULE Spec2Model ----
(***************************************************************************)
(* State-machine model of the server of "I Like Trains": the Train entity  *)
(* (src/server/train.py), the Game simulation (src/server/game.py), the    *)
(* Room lifecycle and tick loop (src/server/room.py), the server-side bot  *)
(* adapter (src/server/ai_client.py) and the command handlers of           *)
(* src/server/server.py.                                                   *)
(*                                                                         *)
(* Conventions.                                                            *)
(*  - Positions are pixel pairs <<x, y>>, as in the code.                  *)
(*  - Calls between modules are bound by name.  Where the call site and    *)
(*    the definition disagree on the parameter list (Game.add_train ->     *)
(*    Train(...), Game.check_collisions -> Train.update, Room.run_game ->  *)
(*    Game.get_dirty_state / AIClient.update_state, Server ->              *)
(*    Game.get_train_respawn_cooldown) the body under src/ with the        *)
(*    nearest name is what runs; a missing argument takes the value the    *)
(*    callee's own module uses for it (reference_tick_rate is              *)
(*    REFERENCE_TICK_RATE, current_tick is Game.current_tick).             *)
(*  - Python floats are modelled by exact integer arithmetic wherever the  *)
(*    IEEE-754 result equals the exact one; the two places where rounding  *)
(*    decides a comparison (the boost timer, the cooldown tick products)   *)
(*    are modelled by what IEEE-754 double arithmetic yields.              *)
(*  - random.* calls are inputs: each action draws them from bounded sets. *)
(***************************************************************************)
EXTENDS Integers, Sequences, FiniteSets, TLC

(***************************************************************************)
(* Program constants                                                       *)
(***************************************************************************)
REFERENCE_TICK_RATE == 60
INITIAL_SPEED == 10
\* SPEED_DECREMENT_COEFFICIENT = 0.95 = 19/20
SPEED_COEFF_NUM == 19
SPEED_COEFF_DEN == 20
BOOST_INTENSITY == 3
\* BOOST_DURATION = 0.25 s and BOOST_COOLDOWN_DURATION = 10.0 s, in hundredths
BOOST_DURATION_CS == 25
BOOST_COOLDOWN_DURATION_CS == 1000
ORIGINAL_GAME_WIDTH == 400
ORIGINAL_GAME_HEIGHT == 400
ORIGINAL_GRID_NB == 20
SPAWN_SAFE_ZONE == 3
\* TRAINS_PASSENGER_RATIO = 1.0
TRAINS_PASSENGER_RATIO == 1
\* GAME_SIZE_INCREMENT_RATIO = 0.05 = 1/20
GAME_SIZE_INCREMENT_DEN == 20
\* ServerConfig defaults
nb_clients_per_room == 2
\* delivery_cooldown_seconds = 0.1, in tenths of a second
delivery_cooldown_ds == 1

CELL_SIZE == ORIGINAL_GAME_WIDTH \div ORIGINAL_GRID_NB
GAME_SIZE_INCREMENT ==
    ((ORIGINAL_GAME_WIDTH + ORIGINAL_GAME_HEIGHT) \div 2) \div GAME_SIZE_INCREMENT_DEN

(***************************************************************************)
(* Bounds of the model                                                     *)
(***************************************************************************)
\* game_duration_seconds of the configuration (an input of the run)
GameDurationSeconds == 1
\* client commands, agent commands and disconnections in one run
MaxCmds == 1
\* largest Passenger.value drawn
MaxPassengerValue == 1
\* respawn_cooldown_seconds of the configuration, in tenths of a second
RespawnCooldownDs == 1
\* the second run of a rate comparison runs at k * tick_rate, k in 1..MaxRateFactor
MaxRateFactor == 3

(***************************************************************************)
(* Small helpers                                                           *)
(***************************************************************************)
Put(f, k, v) == [x \in (DOMAIN f) \cup {k} |-> IF x = k THEN v ELSE f[x]]

Remove(f, k) == [x \in (DOMAIN f) \ {k} |-> f[x]]

Abs(a) == IF a < 0 THEN -a ELSE a

RECURSIVE Pow(_, _)
Pow(b, e) == IF e = 0 THEN 1 ELSE b * Pow(b, e - 1)

InSeq(s, e) == \E i \in 1..Len(s) : s[i] = e

DropLast(s) == SubSeq(s, 1, Len(s) - 1)

RemoveAt(s, i) == SubSeq(s, 1, i - 1) \o SubSeq(s, i + 1, Len(s))

(***************************************************************************)
(* common/move.py (Move enum)                                              *)
(***************************************************************************)
UP == <<0, -1>>
DOWN == <<0, 1>>
LEFT == <<-1, 0>>
RIGHT == <<1, 0>>
Directions == {UP, DOWN, LEFT, RIGHT}

(***************************************************************************)
(* Train (src/server/train.py).  A train is a record; speed is kept as the *)
(* pair (exp, mult) standing for INITIAL_SPEED * 0.95^exp * mult.          *)
(***************************************************************************)
TrainDirtyKeys ==
    {"position", "wagons", "direction", "score", "color", "alive",
     "boost_cooldown_active"}

Speed(e, m) == [exp |-> e, mult |-> m]

Train(x, y) ==
    [position |-> <<x, y>>,
     wagons |-> <<>>,
     new_direction |-> RIGHT,
     direction |-> RIGHT,
     alive |-> TRUE,
     score |-> 0,
     move_timer |-> 0,
     speed |-> Speed(0, 1),
     last_position |-> <<x, y>>,
     dirty |-> TrainDirtyKeys,
     speed_boost_active |-> FALSE,
     speed_boost_timer |-> 0,
     boost_cooldown_active |-> FALSE,
     start_boost_cooldown_tick |-> 0,
     normal_speed |-> Speed(0, 1)]

\* a reversal test that compares with the current heading itself
is_same_direction(t, new_direction) ==
    new_direction = t.direction

is_opposite_direction(t, new_direction) ==
    /\ new_direction[1] = -t.direction[1]
    /\ new_direction[2] = -t.direction[2]

change_direction(t, new_direction) ==
    IF ~is_opposite_direction(t, new_direction)
    THEN [t EXCEPT !.new_direction = new_direction]
    ELSE t

\* set_position without the dirty bit: the write is never reported.
set_position_unflagged(t, new_position) ==
    [t EXCEPT !.position = new_position]

set_position(t, new_position) ==
    IF t.position # new_position
    THEN [t EXCEPT !.position = new_position, !.dirty = @ \cup {"position"}]
    ELSE t

set_direction(t, direction) ==
    IF t.direction # direction
    THEN [t EXCEPT !.direction = direction, !.dirty = @ \cup {"direction"}]
    ELSE t

set_alive(t, alive) ==
    IF t.alive # alive
    THEN [t EXCEPT !.alive = alive, !.dirty = @ \cup {"alive"}]
    ELSE t

\* speed = INITIAL_SPEED * SPEED_DECREMENT_COEFFICIENT ** len(wagons); the
\* "speed" dirty key it sets is read by no serializer and is not kept.
update_speed(t) == [t EXCEPT !.speed = Speed(Len(t.wagons), 1)]

update_score(t, new_score) ==
    update_speed(IF t.score # new_score
                 THEN [t EXCEPT !.score = new_score, !.dirty = @ \cup {"score"}]
                 ELSE t)

RECURSIVE Repeat(_, _)
Repeat(e, n) == IF n = 0 THEN <<>> ELSE <<e>> \o Repeat(e, n - 1)

add_wagons(t, nb_wagons) ==
    update_speed([t EXCEPT !.wagons = @ \o Repeat(t.last_position, nb_wagons),
                           !.dirty = @ \cup {"wagons"}])

\* pop_wagon: the train after the pop (unchanged when it has no wagon)
pop_wagon(t) ==
    IF Len(t.wagons) > 0
    THEN [t EXCEPT !.wagons = DropLast(@), !.dirty = @ \cup {"wagons"}]
    ELSE t

\* move_timer >= REFERENCE_TICK_RATE / speed, in exact arithmetic:
\* timer * INITIAL_SPEED * mult * 19^exp >= REFERENCE_TICK_RATE * 20^exp.
\* The quotient is an integer only for exp = 0, where the float division is
\* exact too, so the float comparison agrees with this one.
MoveDue(timer, speed) ==
    timer * INITIAL_SPEED * speed.mult * Pow(SPEED_COEFF_NUM, speed.exp)
        >= REFERENCE_TICK_RATE * Pow(SPEED_COEFF_DEN, speed.exp)

\* a cooldown window that leaves out the duration of the boost
BoostRequiredTicks_without_boost ==
    (BOOST_COOLDOWN_DURATION_CS * REFERENCE_TICK_RATE) \div 100

\* int((BOOST_COOLDOWN_DURATION + BOOST_DURATION) * reference_tick_rate)
BoostRequiredTicks ==
    ((BOOST_COOLDOWN_DURATION_CS + BOOST_DURATION_CS) * REFERENCE_TICK_RATE) \div 100

get_boost_cooldown_ticks == (BOOST_COOLDOWN_DURATION_CS * REFERENCE_TICK_RATE) \div 100

\* speed_boost_timer is kept in units of 1/reference_tick_rate seconds: it
\* starts at BOOST_DURATION * 60 = 15 and loses 1 per update.
BoostTimerStart == (BOOST_DURATION_CS * REFERENCE_TICK_RATE) \div 100

\* "speed_boost_timer <= 0" on the float the code keeps: 0.25 minus fifteen
\* times (1/60) is 4.86e-17 in IEEE-754 double arithmetic, not 0, so the test
\* first succeeds one update after the exact remainder reaches 0.
BoostTimerElapsed(timer) == timer < 0

\* Train.get_boost_cooldown_time, with current_tick the tick of the last update
get_boost_cooldown_time(t, current_tick) ==
    IF t.boost_cooldown_active
    THEN LET ticks_elapsed == current_tick - t.start_boost_cooldown_tick
             remaining == get_boost_cooldown_ticks - ticks_elapsed
         IN IF remaining > 0 THEN remaining ELSE 0
    ELSE 0

\* a drop_wagon that starts the boost and no cooldown
drop_wagon_without_cooldown(t, current_tick) ==
    IF t.alive /\ ~t.boost_cooldown_active /\ ~t.speed_boost_active /\ Len(t.wagons) > 0
    THEN <<[t EXCEPT !.wagons = DropLast(@),
                     !.dirty = @ \cup {"wagons"},
                     !.normal_speed = t.speed,
                     !.speed = Speed(t.speed.exp, t.speed.mult * BOOST_INTENSITY),
                     !.speed_boost_active = TRUE,
                     !.speed_boost_timer = BoostTimerStart],
           t.wagons[Len(t.wagons)]>>
    ELSE <<t, <<>>>>

\* a drop_wagon that does not look at the boost or at the cooldown
drop_wagon_during_cooldown(t, current_tick) ==
    IF t.alive /\ Len(t.wagons) > 0
    THEN <<[t EXCEPT !.wagons = DropLast(@),
                     !.dirty = @ \cup {"wagons", "boost_cooldown_active"},
                     !.boost_cooldown_active = TRUE,
                     !.start_boost_cooldown_tick = current_tick],
           t.wagons[Len(t.wagons)]>>
    ELSE <<t, <<>>>>

\* Train.drop_wagon: <<train after, position of the dropped wagon or <<>> for None>>
drop_wagon(t, current_tick) ==
    IF ~t.alive THEN <<t, <<>>>>
    ELSE IF /\ ~t.boost_cooldown_active
            /\ ~t.speed_boost_active
            /\ Len(t.wagons) > 0
         THEN <<[t EXCEPT !.wagons = DropLast(@),
                          !.dirty = @ \cup {"wagons", "boost_cooldown_active"},
                          !.normal_speed = t.speed,
                          !.speed = Speed(t.speed.exp, t.speed.mult * BOOST_INTENSITY),
                          !.speed_boost_active = TRUE,
                          !.speed_boost_timer = BoostTimerStart,
                          !.boost_cooldown_active = TRUE,
                          !.start_boost_cooldown_tick = current_tick],
                t.wagons[Len(t.wagons)]>>
         ELSE <<t, <<>>>>

\* Train.reset
reset(t) ==
    [t EXCEPT !.position = <<-1, -1>>,
              !.wagons = <<>>,
              !.direction = RIGHT,
              !.new_direction = RIGHT,
              !.dirty = TrainDirtyKeys]

\* a to_dict that reports the wagons without clearing their flag
to_dict_keeping_wagons(t) ==
    LET keys == (IF "position" \in t.dirty THEN {"position", "direction"} ELSE {})
                \cup (t.dirty \ {"position"})
    IN <<keys, [t EXCEPT !.dirty = @ \cap {"wagons"}]>>

\* Train.to_dict: <<keys of the returned dictionary, train with the bits cleared>>
to_dict(t) ==
    LET keys == (IF "position" \in t.dirty THEN {"position", "direction"} ELSE {})
                \cup (t.dirty \ {"position"})
    IN <<keys, [t EXCEPT !.dirty = {}]>>

(***************************************************************************)
(* Random draws.  One draw stands for the results of the random.* calls of *)
(* one placement: a spawn cell, a passenger cell and a passenger value.    *)
(* An action receives a stream (sequence) of draws; placements take them   *)
(* in turn, cyclically; g.k counts the draws taken inside one action.      *)
(***************************************************************************)
GAME_WIDTH == ORIGINAL_GAME_WIDTH + nb_clients_per_room * GAME_SIZE_INCREMENT
GAME_HEIGHT == ORIGINAL_GAME_HEIGHT + nb_clients_per_room * GAME_SIZE_INCREMENT

CenterCell ==
    <<((GAME_WIDTH \div 2) \div CELL_SIZE) * CELL_SIZE,
      ((GAME_HEIGHT \div 2) \div CELL_SIZE) * CELL_SIZE>>

\* The draws offered to a placement.  DrawTable pairs a spawn cell (the
\* results of the two random.randint calls of get_safe_spawn_position,
\* multiplied by cell_size) with the index of the cell of PassengerCells a
\* passenger placement tries first.
PassengerCells ==
    <<<<(SPAWN_SAFE_ZONE + 1) * CELL_SIZE, SPAWN_SAFE_ZONE * CELL_SIZE>>,
      <<(SPAWN_SAFE_ZONE + 2) * CELL_SIZE, SPAWN_SAFE_ZONE * CELL_SIZE>>,
      <<CenterCell[1] + CELL_SIZE, CenterCell[2]>>>>

DrawTable ==
    <<[spawn |-> <<SPAWN_SAFE_ZONE * CELL_SIZE, SPAWN_SAFE_ZONE * CELL_SIZE>>, pidx |-> 1],
      [spawn |-> CenterCell, pidx |-> 3]>>

Draws ==
    {[spawn |-> DrawTable[i].spawn, pidx |-> DrawTable[i].pidx, val |-> v] :
        i \in 1..Len(DrawTable), v \in 1..MaxPassengerValue}

NextDraw(g, rs) == rs[(g.k % Len(rs)) + 1]

Took(g) == [g EXCEPT !.k = @ + 1]

(***************************************************************************)
(* DeliveryZone (src/server/delivery_zone.py)                              *)
(***************************************************************************)
RECURSIVE isqrt(_)
isqrt(n) == IF n < 1 THEN 0 ELSE
            LET r == isqrt(n - 1) IN IF (r + 1) * (r + 1) <= n THEN r + 1 ELSE r

\* increased is random.choice(["width", "height"]); cx, cy are the two
\* random.randint results
DeliveryZone(game_width, game_height, cell_size, nb_players, increased, cx, cy) ==
    LET player_factor == IF nb_players > 0 THEN isqrt(nb_players) ELSE 0
    IN [width |-> cell_size * (IF increased = "width"
                               THEN player_factor + player_factor ELSE player_factor),
        height |-> cell_size * (IF increased = "height"
                                THEN player_factor + player_factor ELSE player_factor),
        x |-> cell_size * cx,
        y |-> cell_size * cy]

\* the range random.randint(0, upper_bound) draws from, for either axis
ZoneUpperBound(game_size, cell_size, zone_size) ==
    LET max_offset == game_size \div cell_size - 1 - zone_size \div cell_size
    IN IF max_offset > 0 THEN max_offset ELSE 0

contains(zone, position) ==
    /\ position[1] >= zone.x
    /\ position[1] < zone.x + zone.width
    /\ position[2] >= zone.y
    /\ position[2] < zone.y + zone.height

(***************************************************************************)
(* Game (src/server/game.py).  A game is a record g:                       *)
(*   trains, order        self.trains and its insertion order              *)
(*   passengers           sequence of [position, value]                    *)
(*   delivery_zone        DeliveryZone record                              *)
(*   best_scores, best_order  self.best_scores and its insertion order     *)
(*   train_death_ticks    sequence of [nickname, tick] (dict order)        *)
(*   last_delivery_ticks  nickname -> tick                                 *)
(*   current_tick, dirty  tick counter, names of the set dirty flags       *)
(*   ai_clients, ai_order the bot adapters (is_dead, waiting_for_respawn)  *)
(*   notified             nickname -> reason of the last death message     *)
(*   tick_rate, respawn_ds  config.tick_rate, respawn_cooldown_seconds*10  *)
(*   k                    draws taken in the running action                *)
(*   last_remaining_time  round() of the value kept, -1 for None           *)
(*   hits                 history: the pairs <<mover, other>> of this tick *)
(*                        where a move put the mover's head on the cell of *)
(*                        the live train other                             *)
(*   replica              history: a client's trains, fed with every diff  *)
(*   died                 history: the tick of the last death of each train*)
(***************************************************************************)
GameDirtyKeys ==
    {"trains", "size", "cell_size", "passengers", "delivery_zone", "best_scores"}

NoFn == [x \in {} |-> 0]

Game(tick_rate, respawn_ds, zone) ==
    [trains |-> NoFn, order |-> <<>>, passengers |-> <<>>,
     delivery_zone |-> zone, best_scores |-> NoFn, best_order |-> <<>>,
     train_death_ticks |-> <<>>, last_delivery_ticks |-> NoFn,
     current_tick |-> 0, dirty |-> GameDirtyKeys,
     ai_clients |-> NoFn, ai_order |-> <<>>, notified |-> NoFn,
     tick_rate |-> tick_rate, respawn_ds |-> respawn_ds, k |-> 0,
     last_remaining_time |-> -1, hits |-> {}, replica |-> NoFn, died |-> NoFn]

contains_train(g, nickname) == nickname \in DOMAIN g.trains

\* int(seconds * tick_rate * (60.0 / tick_rate)) for seconds = ds / 10.  In
\* exact arithmetic this is ds * 6.  In IEEE-754 double arithmetic the product
\* falls just below that integer for some (ds, tick_rate) and int() truncates
\* it one lower; FloatShort lists those pairs for ds in {1, 2} and
\* tick_rate <= 400 (0.1 * 81 * (60.0 / 81) = 5.999999999999999).
FloatShort(ds, tick_rate) ==
    ds \in {1, 2} /\ tick_rate \in {81, 162, 177, 235, 324, 349, 354}

adjusted_cooldown_ticks(ds, tick_rate) ==
    (ds * REFERENCE_TICK_RATE) \div 10 - (IF FloatShort(ds, tick_rate) THEN 1 ELSE 0)

get_delivery_cooldown_ticks(g) == adjusted_cooldown_ticks(delivery_cooldown_ds, g.tick_rate)

RespawnCooldownTicks(g) == adjusted_cooldown_ticks(g.respawn_ds, g.tick_rate)

DeathTickOf(g, nickname) ==
    LET i == CHOOSE i \in 1..Len(g.train_death_ticks) :
                 g.train_death_ticks[i].nickname = nickname
    IN g.train_death_ticks[i].tick

HasDeathTick(g, nickname) ==
    \E i \in 1..Len(g.train_death_ticks) : g.train_death_ticks[i].nickname = nickname

\* self.train_death_ticks[nickname] = tick (a dict keeps the place of a key it has)
SetDeathTick(dts, nickname, tick) ==
    IF \E i \in 1..Len(dts) : dts[i].nickname = nickname
    THEN [i \in 1..Len(dts) |->
            IF dts[i].nickname = nickname THEN [nickname |-> nickname, tick |-> tick]
            ELSE dts[i]]
    ELSE Append(dts, [nickname |-> nickname, tick |-> tick])

DelDeathTick(dts, nickname) == SelectSeq(dts, LAMBDA e : e.nickname # nickname)

\* Game.get_train_cooldown: the remaining ticks (the code divides them by
\* config.tick_rate before returning; callers only test the sign)
get_train_cooldown_ticks(g, nickname) ==
    IF HasDeathTick(g, nickname)
    THEN LET ticks_elapsed == g.current_tick - DeathTickOf(g, nickname)
             remaining == RespawnCooldownTicks(g) - ticks_elapsed
         IN IF remaining > 0 THEN remaining ELSE 0
    ELSE 0

\* Game.get_train_cooldown: the seconds it returns, remaining_ticks /
\* config.tick_rate, kept as the fraction <<numerator, denominator>>
get_train_cooldown(g, nickname) ==
    <<get_train_cooldown_ticks(g, nickname), g.tick_rate>>

is_position_safe(g, x, y) ==
    LET safe_distance == CELL_SIZE * SPAWN_SAFE_ZONE
        zone == g.delivery_zone
    IN /\ ~(\/ x < safe_distance
            \/ y < safe_distance
            \/ x > GAME_WIDTH - safe_distance
            \/ y > GAME_HEIGHT - safe_distance)
       /\ \A n \in DOMAIN g.trains :
            LET t == g.trains[n] IN
            /\ ~(Abs(t.position[1] - x) < safe_distance
                 /\ Abs(t.position[2] - y) < safe_distance)
            /\ \A i \in 1..Len(t.wagons) :
                 ~(Abs(t.wagons[i][1] - x) < safe_distance
                   /\ Abs(t.wagons[i][2] - y) < safe_distance)
       /\ ~(x > zone.x /\ x < zone.x + zone.width
            /\ y > zone.y /\ y < zone.y + zone.height)
       /\ \A i \in 1..Len(g.passengers) : g.passengers[i].position # <<x, y>>

\* Game.get_safe_spawn_position: the random search returns the first safe
\* draw; when the draws are unsafe it ends in the center default.  c is the
\* cell the search draws.
get_safe_spawn_position(g, c) ==
    IF is_position_safe(g, c[1], c[2]) THEN c ELSE CenterCell

\* server/passenger.py: a passenger is placed on a cell that holds no train,
\* wagon or passenger: the first free cell of PassengerCells from the drawn
\* index on, else the first free cell of the grid in row order
Occupied(g, c) ==
    \/ \E n \in DOMAIN g.trains :
         g.trains[n].position = c \/ InSeq(g.trains[n].wagons, c)
    \/ \E i \in 1..Len(g.passengers) : g.passengers[i].position = c

GridCell(i) ==
    <<(i % (GAME_WIDTH \div CELL_SIZE)) * CELL_SIZE,
      (i \div (GAME_WIDTH \div CELL_SIZE)) * CELL_SIZE>>

FirstFreeCell(g) ==
    LET all == 0..((GAME_WIDTH \div CELL_SIZE) * (GAME_HEIGHT \div CELL_SIZE) - 1)
        free == {i \in all : ~Occupied(g, GridCell(i))}
    IN GridCell(CHOOSE i \in free : \A j \in free : i <= j)

PassengerPlace(g, d) ==
    LET n == Len(PassengerCells)
        cand(j) == PassengerCells[((d.pidx - 1 + j) % n) + 1]
        free == {j \in 0..(n - 1) : ~Occupied(g, cand(j))}
    IN IF free = {} THEN FirstFreeCell(g)
       ELSE cand(CHOOSE j \in free : \A j2 \in free : j <= j2)

Passenger(g, d) == [position |-> PassengerPlace(g, d), value |-> d.val]

\* desired_passengers, as Game.update_passengers_count computes it (a train
\* is counted when contains_train holds) and as Game.check_collisions does on
\* a pickup (len(self.trains)): both count the entries of self.trains
desired_passengers(g) ==
    Cardinality({n \in DOMAIN g.trains : contains_train(g, n)}) \div TRAINS_PASSENGER_RATIO

\* Game.update_passengers_count
RECURSIVE update_passengers_count(_, _)
update_passengers_count(g, rs) ==
    IF Len(g.passengers) < desired_passengers(g)
       THEN update_passengers_count(
                Took([g EXCEPT !.passengers = Append(@, Passenger(g, NextDraw(g, rs))),
                               !.dirty = @ \cup {"passengers"}]), rs)
       ELSE g

\* Game.add_train (it always succeeds: the spawn position is a non-empty tuple)
add_train(g, nickname, rs) ==
    LET spawn_pos == get_safe_spawn_position(g, NextDraw(g, rs).spawn)
        g1 == Took([g EXCEPT
                  !.trains = Put(@, nickname, Train(spawn_pos[1], spawn_pos[2])),
                  !.order = IF InSeq(@, nickname) THEN @ ELSE Append(@, nickname)])
    IN update_passengers_count(g1, rs)

\* Game.send_cooldown
send_cooldown(g, nickname, death_reason) ==
    IF nickname \in DOMAIN g.trains
    THEN [g EXCEPT
            !.train_death_ticks = SetDeathTick(@, nickname, g.current_tick),
            !.last_delivery_ticks = Remove(@, nickname),
            !.notified = Put(@, nickname, death_reason),
            !.ai_clients = IF nickname \in DOMAIN @
                           THEN [@ EXCEPT ![nickname] =
                                   [is_dead |-> TRUE, waiting_for_respawn |-> TRUE]]
                           ELSE @]
    ELSE g

\* a death handler that processes only the first nickname it is given
handle_first_train_death(g, train_nicknames, death_reason, rs) ==
    IF train_nicknames = <<>> THEN g
    ELSE LET nickname == Head(train_nicknames)
         IN IF nickname \in DOMAIN g.trains
            THEN LET a == [g EXCEPT !.trains[nickname] = set_alive(@, FALSE),
                                     !.died = Put(@, nickname, g.current_tick)]
                     b == send_cooldown(a, nickname, death_reason)
                     c == update_passengers_count(b, rs)
                 IN [c EXCEPT !.trains[nickname] = reset(@)]
            ELSE g

\* Game.handle_train_death
RECURSIVE handle_train_death(_, _, _, _)
handle_train_death(g, train_nicknames, death_reason, rs) ==
    IF train_nicknames = <<>> THEN g
    ELSE LET nickname == Head(train_nicknames)
             g1 == IF nickname \in DOMAIN g.trains
                   THEN LET a == [g EXCEPT !.trains[nickname] = set_alive(@, FALSE),
                                     !.died = Put(@, nickname, g.current_tick)]
                            b == send_cooldown(a, nickname, death_reason)
                            c == update_passengers_count(b, rs)
                        IN [c EXCEPT !.trains[nickname] = reset(@)]
                   ELSE g
         IN handle_train_death(g1, Tail(train_nicknames), death_reason, rs)

\* Train.check_collisions_with_trains, for train n just moved to new_position
RECURSIVE CollideWithOthers(_, _, _, _, _)
CollideWithOthers(g, n, new_position, others, rs) ==
    IF others = <<>> THEN g
    ELSE LET o == Head(others)
             train == g.trains[o]
         IN IF o = n \/ ~train.alive
            THEN CollideWithOthers(g, n, new_position, Tail(others), rs)
            ELSE IF new_position = train.position
            THEN handle_train_death(g, <<n, o>>, "collision_with_train", rs)
            ELSE IF InSeq(train.wagons, g.trains[n].position)
            THEN handle_train_death(g, <<n>>, "collision_with_wagon", rs)
            ELSE CollideWithOthers(g, n, new_position, Tail(others), rs)

check_collisions_with_trains(g, n, new_position, rs) ==
    IF InSeq(g.trains[n].wagons, new_position)
    THEN handle_train_death(g, <<n>>, "self_collision", rs)
    ELSE CollideWithOthers(g, n, new_position, g.order, rs)

\* the bounds test of the far edges only
check_out_of_bounds_past_edge(g, n, new_position, rs) ==
    IF new_position[1] >= GAME_WIDTH \/ new_position[2] >= GAME_HEIGHT
    THEN handle_train_death(g, <<n>>, "out_of_bounds", rs)
    ELSE g

check_out_of_bounds(g, n, new_position, rs) ==
    IF \/ new_position[1] < 0 \/ new_position[1] >= GAME_WIDTH
       \/ new_position[2] < 0 \/ new_position[2] >= GAME_HEIGHT
    THEN handle_train_death(g, <<n>>, "out_of_bounds", rs)
    ELSE g

\* a step of one pixel less than a cell
NewPositionShort(t, cell_size) ==
    <<t.position[1] + t.direction[1] * (cell_size - 1),
      t.position[2] + t.direction[2] * (cell_size - 1)>>

\* a step of two cells
NewPositionTwoCells(t, cell_size) ==
    <<t.position[1] + t.direction[1] * 2 * cell_size,
      t.position[2] + t.direction[2] * 2 * cell_size>>

\* the cell Train.move computes for the head
NewPosition(t, cell_size) ==
    <<t.position[1] + t.direction[1] * cell_size,
      t.position[2] + t.direction[2] * cell_size>>

\* Train.move
move(g, n, rs) ==
    LET t == g.trains[n] IN
    IF ~t.alive THEN g
    ELSE LET new_position == NewPosition(t, CELL_SIZE)
             t1 == [t EXCEPT !.last_position = t.position]
             t2 == IF Len(t1.wagons) > 0
                   THEN [t1 EXCEPT !.wagons = DropLast(<<t.position>> \o @),
                                   !.dirty = @ \cup {"wagons"}]
                   ELSE t1
             t3 == set_position(t2, new_position)
             g1 == [g EXCEPT !.trains[n] = t3,
                             !.hits = @ \cup {<<n, o>> : o \in
                                         {m \in DOMAIN g.trains \ {n} :
                                            /\ g.trains[m].alive
                                            /\ g.trains[m].position = new_position}}]
             g2 == check_collisions_with_trains(g1, n, new_position, rs)
         IN check_out_of_bounds(g2, n, new_position, rs)

\* Train.update, on the train named n of game g
update(g, n, rs) ==
    LET t == g.trains[n] IN
    IF ~t.alive THEN g
    ELSE LET t1 == IF t.speed_boost_active
                   THEN LET timer == t.speed_boost_timer - 1
                        IN IF BoostTimerElapsed(timer)
                           THEN [t EXCEPT !.speed_boost_timer = timer,
                                          !.speed_boost_active = FALSE,
                                          !.speed = t.normal_speed]
                           ELSE [t EXCEPT !.speed_boost_timer = timer]
                   ELSE t
             t2 == IF /\ t1.boost_cooldown_active
                      /\ g.current_tick - t1.start_boost_cooldown_tick
                            >= BoostRequiredTicks
                   THEN [t1 EXCEPT !.boost_cooldown_active = FALSE,
                                   !.dirty = @ \cup {"boost_cooldown_active"}]
                   ELSE t1
             t3 == [t2 EXCEPT !.move_timer = @ + 1]
         IN IF MoveDue(t3.move_timer, t3.speed)
            THEN LET t4 == set_direction([t3 EXCEPT !.move_timer = 0], t3.new_direction)
                 IN move([g EXCEPT !.trains[n] = t4], n, rs)
            ELSE [g EXCEPT !.trains[n] = t3]

\* the passenger loop of Game.check_collisions for train n: a Python for loop
\* over self.passengers, which skips the element after one it removes
RECURSIVE PickUp(_, _, _, _)
PickUp(g, n, i, rs) ==
    IF i > Len(g.passengers) THEN g
    ELSE LET passenger == g.passengers[i] IN
         IF g.trains[n].position = passenger.position
         THEN LET g1 == [g EXCEPT !.trains[n] = add_wagons(@, passenger.value)]
              IN IF Len(g1.passengers) <= desired_passengers(g1)
                 THEN \* passenger.respawn()
                      LET others == [g1 EXCEPT !.passengers = RemoveAt(@, i)]
                          p == Passenger(others, NextDraw(g1, rs))
                      IN PickUp(Took([g1 EXCEPT !.passengers[i] = p,
                                                !.dirty = @ \cup {"passengers"}]),
                                n, i + 1, rs)
                 ELSE PickUp([g1 EXCEPT !.passengers = RemoveAt(@, i),
                                        !.dirty = @ \cup {"passengers"}],
                             n, i + 1, rs)
         ELSE PickUp(g, n, i + 1, rs)

\* a delivery step that does not wait for the delivery cooldown
Deliver_without_cooldown(g, n) ==
    IF contains(g.delivery_zone, g.trains[n].position) /\ Len(g.trains[n].wagons) > 0
    THEN [g EXCEPT !.trains[n] = update_score(pop_wagon(@), @.score + 1),
                   !.last_delivery_ticks = Put(@, n, g.current_tick)]
    ELSE g

\* the delivery-zone part of Game.check_collisions for train n
Deliver(g, n) ==
    LET train == g.trains[n] IN
    IF /\ contains(g.delivery_zone, train.position)
       /\ \/ n \notin DOMAIN g.last_delivery_ticks
          \/ g.current_tick - g.last_delivery_ticks[n] >= get_delivery_cooldown_ticks(g)
       /\ Len(train.wagons) > 0
    THEN LET t1 == update_score(pop_wagon(train), train.score + 1)
             best == IF n \in DOMAIN g.best_scores THEN g.best_scores[n] ELSE 0
         IN [g EXCEPT !.trains[n] = t1,
                      !.best_scores = IF t1.score > best THEN Put(@, n, t1.score) ELSE @,
                      !.best_order = IF t1.score > best /\ ~InSeq(@, n)
                                     THEN Append(@, n) ELSE @,
                      !.dirty = IF t1.score > best THEN @ \cup {"best_scores"} ELSE @,
                      !.last_delivery_ticks = Put(@, n, g.current_tick)]
    ELSE g

\* Game.check_collisions
RECURSIVE CheckEach(_, _, _)
CheckEach(g, names, rs) ==
    IF names = <<>> THEN g
    ELSE LET n == Head(names)
             g1 == update(g, n, rs)
             g2 == PickUp(g1, n, 1, rs)
         IN CheckEach(Deliver(g2, n), Tail(names), rs)

check_collisions(g, rs) == CheckEach(g, g.order, rs)

\* Game.get_state: <<payload, game with the reported dirty bits cleared>>.  The
\* payload is kept as the keys it holds: payload.game are the top-level keys
\* other than "trains", payload.trains maps each reported train to its keys.
\* The per-train fields a client keeps from the state packets.
VisibleKeys == {"position", "direction", "wagons", "score", "alive", "boost_cooldown_active"}

\* The values Train.to_dict puts under the keys it reports.
train_data(t) == [k \in to_dict(t)[1] \cap VisibleKeys |-> t[k]]

\* dict.update of the client's entry of one train.
dict_update(d, e) == [k \in (DOMAIN d) \cup (DOMAIN e) |-> IF k \in DOMAIN e THEN e[k] ELSE d[k]]

\* GameState.handle_state_data on the "trains" part of a packet.
handle_state_data(trains, data) ==
    [n \in (DOMAIN trains) \cup (DOMAIN data) |->
        IF n \in DOMAIN data
        THEN dict_update(IF n \in DOMAIN trains THEN trains[n] ELSE NoFn, data[n])
        ELSE trains[n]]

get_state(g) ==
    LET trains_data == [n \in {m \in DOMAIN g.trains : to_dict(g.trains[m])[1] # {}}
                          |-> to_dict(g.trains[n])[1]]
        payload == [game |-> g.dirty \ {"trains"}, trains |-> trains_data]
    IN <<payload,
         [g EXCEPT !.trains = [n \in DOMAIN g.trains |-> to_dict(g.trains[n])[2]],
                   !.dirty = IF DOMAIN trains_data # {} THEN {}
                             ELSE g.dirty \cap {"trains"},
                   !.replica = handle_state_data(@, [n \in DOMAIN trains_data |->
                                                        train_data(g.trains[n])])]>>

EmptyPayload == [game |-> {}, trains |-> NoFn]

(***************************************************************************)
(* AINetworkInterface and AIClient (src/server/ai_client.py).  What the    *)
(* agent's get_move returns is an input: "none" (None), "drop" (Move.DROP)  *)
(* or a direction; get_move may also raise ("raises") or still be running  *)
(* at the deadline ("timeout").                                            *)
(***************************************************************************)
AgentMoves == {"none", "drop", "UP", "DOWN", "LEFT", "RIGHT"}

\* the outcomes of get_move after which _move_result is None or is not read
Silent == {"none", "raises", "timeout"}

\* Move.X.value of a direction move
MoveValue(mv) ==
    CASE mv = "UP" -> UP [] mv = "DOWN" -> DOWN [] mv = "LEFT" -> LEFT [] OTHER -> RIGHT

\* the passenger both drop_wagon handlers append at the dropped wagon's cell
DroppedPassenger(last_wagon_position) == [position |-> last_wagon_position, value |-> 1]

\* AINetworkInterface.send_drop_wagon_request
send_drop_wagon_request(g, nickname) ==
    IF nickname \in DOMAIN g.trains
    THEN LET r == drop_wagon(g.trains[nickname], g.current_tick)
         IN IF r[2] # <<>>
            THEN [g EXCEPT !.trains[nickname] = r[1],
                           !.passengers = Append(@, DroppedPassenger(r[2])),
                           !.dirty = @ \cup {"passengers"}]
            ELSE g
    ELSE g

\* AINetworkInterface.send_direction_change
send_direction_change(g, nickname, direction) ==
    IF contains_train(g, nickname)
    THEN [g EXCEPT !.trains[nickname] = change_direction(@, direction)]
    ELSE g

\* an update_agent that answers a failed get_move with a turn
update_agent_turning(g, nickname, mv) ==
    IF mv = "drop" THEN send_drop_wagon_request(g, nickname)
    ELSE send_direction_change(g, nickname, IF mv \in Silent THEN UP ELSE MoveValue(mv))

\* BaseAgent.update_agent with get_move ending as mv: the worker thread is
\* still alive after join(timeout) and is terminated, or it has ended and
\* left _move_result None (get_move returned None or raised), or a move
update_agent(g, nickname, mv) ==
    IF mv = "timeout" THEN g
    ELSE IF mv \in {"none", "raises"} THEN g
    ELSE IF mv = "drop" THEN send_drop_wagon_request(g, nickname)
    ELSE send_direction_change(g, nickname, MoveValue(mv))

\* AIClient.update_state
\* the end of AIClient.update_state: the agent acts if its train is in play
AgentStep(g, nickname, mv) ==
    IF ~g.ai_clients[nickname].is_dead /\ contains_train(g, nickname)
    THEN update_agent(g, nickname, mv)
    ELSE g

update_state(g, nickname, mv) == AgentStep(get_state(g)[2], nickname, mv)

Respawned(g, nickname, rs) ==
    [add_train(g, nickname, rs) EXCEPT
        !.ai_clients[nickname] = [is_dead |-> FALSE, waiting_for_respawn |-> FALSE]]

\* Game.update, the loop over a copy of train_death_ticks
RECURSIVE ExpireDeaths(_, _, _)
ExpireDeaths(g, deaths, rs) ==
    IF deaths = <<>> THEN g
    ELSE LET nickname == Head(deaths).nickname
             death_tick == Head(deaths).tick
         IN IF g.current_tick >= death_tick + RespawnCooldownTicks(g)
            THEN LET g1 == [g EXCEPT !.train_death_ticks = DelDeathTick(@, nickname)]
                     g2 == IF /\ nickname \in DOMAIN g1.ai_clients
                              /\ g1.ai_clients[nickname].is_dead
                              /\ g1.ai_clients[nickname].waiting_for_respawn
                           THEN Respawned(g1, nickname, rs)
                           ELSE g1
                 IN ExpireDeaths(g2, Tail(deaths), rs)
            ELSE ExpireDeaths(g, Tail(deaths), rs)

\* Game.update, the loop over ai_clients; in_waiting_room is False once the
\* game exists (game_started is set before any AIClient is built)
RECURSIVE UpdateAIs(_, _, _, _)
UpdateAIs(g, names, mvs, rs) ==
    IF names = <<>> THEN g
    ELSE LET ai_name == Head(names)
             ai_client == g.ai_clients[ai_name]
             g1 == IF ai_client.is_dead /\ ai_client.waiting_for_respawn
                   THEN IF get_train_cooldown_ticks(g, ai_name) <= 0
                        THEN Respawned(g, ai_name, rs)
                        ELSE g
                   ELSE update_state(g, ai_name, mvs[ai_name])
         IN UpdateAIs(g1, Tail(names), mvs, rs)

ExpireDeathTicks(g, rs) == ExpireDeaths(g, g.train_death_ticks, rs)

UpdateAIClients(g, mvs, rs) == UpdateAIs(g, g.ai_order, mvs, rs)

\* Game.update
GameUpdate(g, mvs, rs) ==
    IF DOMAIN g.trains = {} THEN g
    ELSE UpdateAIClients(ExpireDeathTicks(check_collisions(g, rs), rs), mvs, rs)

(***************************************************************************)
(* Room (src/server/room.py) and the handlers of src/server/server.py.     *)
(* Client addresses are pairs <<"client", i>>; the room keys a bot by the  *)
(* pair <<"AI", nickname>>.  clients is the dict {addr: nickname} in its   *)
(* insertion order, as a sequence of [addr, nickname].                     *)
(***************************************************************************)
\* config.agents, by nickname
Agents == <<"bot">>

\* what get_available_ai_name appends to a taken nickname: "-r", r the
\* random.randint result
Suffixed(nickname) ==
    CASE nickname = "bot" -> "bot-1"
      [] nickname = "bot-1" -> "bot-1-1"
      [] OTHER -> "bot-1-1-1"

\* nicknames a connecting player may ask for
HumanNames == {"ann", "bob", "bot"}

\* nicknames handle_new_client draws for an observer
ObserverNames == {"Observer_1000"}

GameModes == {"agent"}

\* number of client addresses that may connect
MaxClients == 2

ClientAddrs == {<<"client", i>> : i \in 1..MaxClients}

\* the nicknames the client at addr asks for: the first client to connect
\* calls itself ann or bot (the nickname of a configured agent), the others bob
NamesAt(addr) == IF addr[2] = 1 THEN {"ann", "bot"} ELSE {"bob"}

IsAI(addr) == addr[1] = "AI"

HasAddr(cl, addr) == \E i \in 1..Len(cl) : cl[i].addr = addr

NicknameOf(cl, addr) ==
    cl[CHOOSE i \in 1..Len(cl) : cl[i].addr = addr].nickname

RECURSIVE Nicknames(_)
Nicknames(cl) == IF cl = <<>> THEN <<>> ELSE <<Head(cl).nickname>> \o Nicknames(Tail(cl))

\* Room.get_players
get_players(cl, modes) ==
    Nicknames(SelectSeq(cl, LAMBDA c : c.addr \in DOMAIN modes
                                        /\ modes[c.addr] # "observer"))

\* Room.get_player_count
get_player_count(modes) == Cardinality({a \in DOMAIN modes : modes[a] # "observer"})

\* Room.is_full
is_full(modes) == get_player_count(modes) >= nb_clients_per_room

\* Room.add_all_trains
RECURSIVE AddTrains(_, _, _)
AddTrains(g, players, rs) ==
    IF players = <<>> THEN g
    ELSE AddTrains(add_train(g, Head(players), rs), Tail(players), rs)

add_all_trains(g, cl, modes, rs) == AddTrains(g, get_players(cl, modes), rs)

\* Room.get_available_ai_name for an agent with a configured nickname
RECURSIVE get_available_ai_name(_, _)
get_available_ai_name(used, nickname) ==
    IF nickname \in used THEN get_available_ai_name(used, Suffixed(nickname))
    ELSE nickname

\* AIClient.__init__ followed by the registration in game.ai_clients; mv is
\* what the agent answers to the update_state call of the constructor
NewAIClient(g, ai_nickname, is_dead, mv) ==
    LET g1 == [g EXCEPT
                 !.ai_clients = Put(@, ai_nickname,
                                    [is_dead |-> is_dead, waiting_for_respawn |-> is_dead]),
                 !.ai_order = IF InSeq(@, ai_nickname) THEN @ ELSE Append(@, ai_nickname)]
    IN update_state(g1, ai_nickname, mv)

\* Room.add_ai on the room state r = [g, clients, used]
add_ai(r, ai_nickname, mv, rs) ==
    [r EXCEPT !.g = NewAIClient(add_train(r.g, ai_nickname, rs), ai_nickname, FALSE, mv),
              !.clients = IF HasAddr(@, <<"AI", ai_nickname>>) THEN @
                          ELSE Append(@, [addr |-> <<"AI", ai_nickname>>,
                                          nickname |-> ai_nickname])]

\* the agent lists fill_with_bots can build: a shuffle of config.agents,
\* padded with random choices, cut to nb_bots_needed (indices into Agents)
\* A random.choice of the pool for every place of the list.
select_agents_with_replacement(nb_agents, nb_bots_needed) ==
    [1..nb_bots_needed -> 1..nb_agents]

\* The list agents of Room.fill_with_bots for a pool of nb_agents
\* configurations, each named by its index in config.agents: a shuffle of the
\* pool, one random.choice appended for every missing place, cut to
\* nb_bots_needed entries.
select_agents(nb_agents, nb_bots_needed) ==
    LET shuffles == {p \in [1..nb_agents -> 1..nb_agents] :
                        \A i, j \in 1..nb_agents : i < j => p[i] # p[j]}
        choices == [1..(IF nb_bots_needed > nb_agents THEN nb_bots_needed - nb_agents ELSE 0)
                      -> 1..nb_agents]
    IN {SubSeq(p \o c, 1, nb_bots_needed) : p \in shuffles, c \in choices}

AgentLists(nb_bots_needed) == select_agents(Len(Agents), nb_bots_needed)

\* No call of fill_with_bots recorded.
NoSelection == [nb_agents |-> 0, nb_bots_needed |-> 0, agents |-> <<>>, returned |-> FALSE]

\* Room.fill_with_bots
RECURSIVE fill_with_bots(_, _, _, _, _)
fill_with_bots(r, agents, i, mv, rs) ==
    IF i > Len(agents) THEN r
    ELSE LET ai_nickname == get_available_ai_name(r.used, Agents[agents[i]])
             r1 == [r EXCEPT !.used = @ \cup {ai_nickname}]
         IN fill_with_bots(add_ai(r1, ai_nickname, mv, rs), agents, i + 1, mv, rs)

\* Room.start_game outside grading mode, from the Game constructor on
start_game(tr, zone, cl, modes, used, agents, mv, rs) ==
    LET g0 == Game(tr, RespawnCooldownDs, zone)
        g1 == add_all_trains(g0, cl, modes, rs)
    IN fill_with_bots([g |-> g1, clients |-> cl, used |-> used], agents, 1, mv, rs)

\* delivery zones the Game constructor may draw
ZoneCells == {<<SPAWN_SAFE_ZONE + 4, SPAWN_SAFE_ZONE>>}

ZoneShapes == {"width"}

Zones ==
    {DeliveryZone(GAME_WIDTH, GAME_HEIGHT, CELL_SIZE, nb_clients_per_room, inc, c[1], c[2]) :
        inc \in ZoneShapes, c \in ZoneCells}

\* the dirty flags of a game and of its trains
DirtyBits(g) == [game |-> g.dirty, trains |-> [n \in DOMAIN g.trains |-> g.trains[n].dirty]]

\* the end of Room.replace_player_by_ai, from "state = self.game.get_state()"
\* on: [g, payload of that call, whether it left the dirty flags as they were]
ReplacementState(g, ai_nickname, mv) ==
    LET state == get_state(g)
    IN [g |-> update_state(state[2], ai_nickname, mv),
        payload |-> state[1],
        bits_kept |-> DirtyBits(g) = DirtyBits(state[2])]

\* the renaming of the train in Room.replace_player_by_ai
RenameTrain(g, train_nickname_to_replace, ai_nickname) ==
    [g EXCEPT
       !.trains = Remove(Put(@, ai_nickname, g.trains[train_nickname_to_replace]),
                         train_nickname_to_replace),
       !.order = SelectSeq(IF InSeq(@, ai_nickname) THEN @ ELSE Append(@, ai_nickname),
                           LAMBDA n : n # train_nickname_to_replace),
       !.replica = IF train_nickname_to_replace \in DOMAIN @
                   THEN Remove(Put(@, ai_nickname, @[train_nickname_to_replace]),
                               train_nickname_to_replace)
                   ELSE @,
       !.died = IF train_nickname_to_replace \in DOMAIN @
                THEN Remove(Put(@, ai_nickname, @[train_nickname_to_replace]),
                            train_nickname_to_replace)
                ELSE @]

\* Room.replace_player_by_ai past its two guards
replace_player_by_ai(g, ai_nickname, train_nickname_to_replace, mv1, mv2) ==
    ReplacementState(
        NewAIClient(RenameTrain(g, train_nickname_to_replace, ai_nickname), ai_nickname,
                    ~g.trains[train_nickname_to_replace].alive, mv1),
        ai_nickname, mv2)

VARIABLE game_duration_seconds   \* config.game_duration_seconds
VARIABLE selected                \* a call of Room.fill_with_bots: its inputs and its list agents
VARIABLE teardown                \* a call of Server.remove_room and the threads of the bots
VARIABLE agent_call              \* the calls of BaseAgent.update_agent of one bot and their worker threads
VARIABLE server                  \* the key sets of the per-address dictionaries of Server

\* round(game_duration_seconds - tick / REFERENCE_TICK_RATE), Python's
\* round-half-to-even
RoundRemaining(tick) ==
    LET n == game_duration_seconds * REFERENCE_TICK_RATE - tick
        q == n \div REFERENCE_TICK_RATE
        r == n % REFERENCE_TICK_RATE
    IN IF 2 * r < REFERENCE_TICK_RATE THEN q
       ELSE IF 2 * r > REFERENCE_TICK_RATE THEN q + 1
       ELSE IF q % 2 = 0 THEN q ELSE q + 1

\* Room.run_game: the loop "for ai_client in self.ai_clients.values()"
RECURSIVE RoomUpdateAIs(_, _, _)
RoomUpdateAIs(g, names, mvs) ==
    IF names = <<>> THEN g
    ELSE RoomUpdateAIs(update_state(g, Head(names), mvs[Head(names)]), Tail(names), mvs)

\* Room.run_game after game.update(): <<game after, payload sent>>
SendState(g, tick, mvs) ==
    LET state == get_state(g)
        rem == RoundRemaining(tick)
        send_rem == g.last_remaining_time = -1 \/ rem # g.last_remaining_time
        payload == [state[1] EXCEPT
                      !.game = @ \cup (IF send_rem THEN {"remaining_time"} ELSE {})]
        g2 == [state[2] EXCEPT !.last_remaining_time = IF send_rem THEN rem ELSE @]
    IN <<IF payload # EmptyPayload THEN RoomUpdateAIs(g2, g2.ai_order, mvs) ELSE g2,
         payload>>

\* one iteration of the loop of Room.run_game at tick number tick
run_game_tick(g, tick, mvs1, mvs2, rs) ==
    SendState(GameUpdate([g EXCEPT !.current_tick = tick, !.hits = {}], mvs1, rs),
              tick, mvs2)

(***************************************************************************)
(* State                                                                   *)
(***************************************************************************)
VARIABLES
    clients,            \* Room.clients
    client_game_modes,  \* Room.client_game_modes
    addr_to_name,       \* Server.addr_to_name
    has_clients,        \* Room.has_clients
    used_nicknames,     \* Room.used_nicknames
    stop_waiting_room,  \* Room.stop_waiting_room
    game_thread,        \* Room.game_thread is not None (Room.game exists)
    game,               \* Room.game
    tick_counter,       \* Room.tick_counter
    game_over,          \* Room.game_over
    running,            \* Room.running
    in_rooms,           \* the room is in Server.rooms
    pc,                 \* the game thread: "none", "loop" (in run_game), "ended"
    closing,            \* the close_room_after_delay thread of end_game is pending
    tick_rate,          \* config.tick_rate
    cmds,               \* commands the clients and agents may still issue
    last,               \* history: the operation that ran last
    game2,              \* the second run of a rate comparison
    handler,            \* the Server.handle_new_client call in progress
    times               \* time.time() and Room.first_client_join_time

vars ==
    <<clients, client_game_modes, addr_to_name, has_clients, used_nicknames,
      stop_waiting_room, game_thread, game, tick_counter, game_over, running,
      in_rooms, pc, closing, tick_rate, cmds, last, game2, handler, times,
      game_duration_seconds, selected, teardown,
      agent_call, server>>

roomVars ==
    <<clients, client_game_modes, addr_to_name, has_clients, used_nicknames,
      stop_waiting_room, game_thread, game_over, running, in_rooms, pc, closing>>

Did(op) ==
    [op |-> op, who |-> "", dir |-> <<0, 0>>, ok |-> FALSE, remaining |-> 0,
     payload |-> EmptyPayload, bits_kept |-> TRUE, mv |-> "none"]

\* a loop bound computed from the configured tick rate
total_updates_at_tick_rate == game_duration_seconds * tick_rate

\* total_updates of Room.run_game
total_updates == game_duration_seconds * REFERENCE_TICK_RATE

\* tick rates the configuration may set
TickRates == {REFERENCE_TICK_RATE}

\* the value of game before Room.start_game builds one
NoGame == Game(REFERENCE_TICK_RATE, RespawnCooldownDs, CHOOSE z \in Zones : TRUE)

\* no Server.remove_room call was made: pc is the place of the call
\* ("idle", "join", "stop", "delete", "returned"), waited the time spent in
\* game_thread.join, stopped the bots whose AIClient.running is False and
\* left the bots whose thread has left the loop of AIClient.run; addr is the
\* client whose disconnection made the call
NoTeardown ==
    [pc |-> "idle", waited |-> 0, stopped |-> {}, left |-> {}, addr |-> <<"", 0>>]

\* no BaseAgent.update_agent call was made: pc is the place of the caller
\* ("idle", "join", "read"), call counts the calls, move_result is
\* self._move_result with the call whose worker wrote it (0 for the None of
\* the caller), running holds the workers that have not written yet, each
\* with the call that started it and the move its get_move computes,
\* timed_out the calls whose join ran into the deadline and applied the
\* calls whose move was sent to the game
NoAgentCall ==
    [pc |-> "idle", call |-> 0, move_result |-> [mv |-> "none", of |-> 0],
     running |-> {}, timed_out |-> {}, applied |-> {}]

\* no Server.handle_new_client call is in progress
\* Server.addr_to_sciper, addr_to_game_mode, client_last_activity,
\* ping_responses (the keys of each) and Server.disconnected_clients
NoServer ==
    [addr_to_sciper |-> {}, addr_to_game_mode |-> {}, client_last_activity |-> {},
     ping_responses |-> {}, disconnected_clients |-> {}]

\* Server.handle_new_client, the entries it makes for addr.  Every client
\* has a sciper of its own, so the clean-up of an old address of the same
\* sciper does nothing.
Register(srv, addr) ==
    [srv EXCEPT !.addr_to_sciper = @ \cup {addr},
                !.addr_to_game_mode = @ \cup {addr},
                !.client_last_activity = @ \cup {addr},
                !.disconnected_clients = @ \ {addr}]

\* the dictionaries after the human clients of the roster cl have joined
Registered(cl) ==
    LET humans == {cl[i].addr : i \in {j \in 1..Len(cl) : cl[j].addr[1] # "AI"}}
    IN [NoServer EXCEPT !.addr_to_sciper = humans,
                        !.addr_to_game_mode = humans,
                        !.client_last_activity = humans]

\* Server.handle_client_disconnection: "self.disconnected_clients.add(addr)"
MarkDisconnected(srv, addr) ==
    [srv EXCEPT !.disconnected_clients = @ \cup {addr}]

\* Server.handle_client_disconnection from "self.record_disconnection" on
CleanUp(srv, addr) ==
    [srv EXCEPT !.addr_to_sciper = @ \ {addr},
                !.addr_to_game_mode = @ \ {addr},
                !.client_last_activity = @ \ {addr},
                !.ping_responses = @ \ {addr}]

NoHandler == [pc |-> 0, addr |-> <<"", 0>>, nickname |-> "", game_mode |-> ""]

\* the clock at t, a first client having joined at first (-1 is None);
\* Room.room_creation_time is 0
Times(t, first) == [now |-> t, first_client_join_time |-> first]

RoomInit ==
    /\ clients = <<>>
    /\ client_game_modes = NoFn
    /\ addr_to_name = NoFn
    /\ has_clients = FALSE
    /\ used_nicknames = {}
    /\ stop_waiting_room = FALSE
    /\ game_thread = FALSE
    /\ game = NoGame
    /\ tick_counter = 0
    /\ game_over = FALSE
    /\ running = TRUE
    /\ in_rooms = TRUE
    /\ pc = "none"
    /\ closing = FALSE
    /\ last = Did("init")
    /\ game2 = NoGame
    /\ handler = NoHandler
    /\ times = Times(0, -1)

Init ==
    /\ RoomInit
    /\ tick_rate \in TickRates
    /\ game_duration_seconds = GameDurationSeconds
    /\ selected = NoSelection
    /\ teardown = NoTeardown
    /\ server = Registered(clients)
    /\ agent_call = NoAgentCall
    /\ cmds = MaxCmds

(***************************************************************************)
(* Inputs of the actions                                                   *)
(***************************************************************************)
NoMoves(names) == [n \in names |-> "none"]

Cost(mvs) == Cardinality({n \in DOMAIN mvs : mvs[n] # "none"})

\* the answers the agents named in names may give with budget commands left
MoveChoices(names, budget) == {mvs \in [names -> AgentMoves] : Cost(mvs) <= budget}

OneMove(budget) == IF budget > 0 THEN AgentMoves ELSE {"none"}

\* the draw streams offered to an action
Streams1 == {<<d>> : d \in Draws}
Streams2 == {<<d1, d2>> : d1 \in Draws, d2 \in Draws}
\* the draws of the placements made inside one tick of the game loop
TickStream == <<[spawn |-> DrawTable[1].spawn, pidx |-> DrawTable[1].pidx, val |-> 1]>>

(***************************************************************************)
(* Actions                                                                 *)
(***************************************************************************)
\* Server.process_message -> handle_name_check -> handle_new_client.  The
\* addresses are interchangeable and connect in index order; a client that
\* finds the room full or started is given another room.
handle_new_client(addr, nickname, game_mode) ==
    /\ in_rooms
    /\ addr \notin DOMAIN addr_to_name
    /\ \A a \in ClientAddrs : a[2] < addr[2] => a \in DOMAIN addr_to_name
    /\ ~is_full(client_game_modes) /\ ~game_thread
    /\ IF game_mode = "observer"
       THEN nickname \in ObserverNames
       ELSE /\ nickname \in NamesAt(addr)
            /\ \A i \in 1..Len(clients) : clients[i].nickname # nickname
    /\ addr_to_name' = Put(addr_to_name, addr, nickname)
    /\ clients' = Append(clients, [addr |-> addr, nickname |-> nickname])
    /\ client_game_modes' = Put(client_game_modes, addr, game_mode)
    /\ has_clients' = TRUE
    /\ times' = [times EXCEPT !.first_client_join_time = IF @ = -1 THEN times.now ELSE @]
    /\ last' = [Did("join") EXCEPT !.who = nickname]
    /\ server' = Register(server, addr)
    /\ UNCHANGED <<used_nicknames, stop_waiting_room, game_thread, game, tick_counter,
                   game_over, running, in_rooms, pc, closing, tick_rate, agent_call, game_duration_seconds, selected, teardown, cmds, game2,
                   handler>>

\* the room state r = [g, clients, used] that Room.start_game leaves
Started(r, mv) ==
    /\ game' = [r.g EXCEPT !.k = 0]
    /\ clients' = r.clients
    /\ used_nicknames' = r.used
    /\ cmds' = cmds - (IF mv = "none" THEN 0 ELSE 1)

\* a start_game that builds a Game whether or not one is running
builds_game_again(room_running, stop, cl, thread) == room_running /\ cl # <<>>

\* the guards between the waiting-room loop and the Game constructor: the loop
\* head (running and not stop_waiting_room), the test of the loop body
\* (clients and not game_thread) and start_game's "if self.game_thread: return"
builds_game(room_running, stop, cl, thread) ==
    /\ room_running /\ ~stop
    /\ cl # <<>> /\ ~thread

\* the iteration of Room.broadcast_waiting_room that calls start_game: the
\* room is full, or the waiting time is over (time_up)
broadcast_waiting_room(time_up) ==
    /\ builds_game(running, stop_waiting_room, clients, game_thread)
    /\ is_full(client_game_modes) \/ time_up
    /\ LET nb_bots_needed == nb_clients_per_room - get_player_count(client_game_modes)
       IN \E zone \in Zones :
          \E agents \in AgentLists(IF nb_bots_needed > 0 THEN nb_bots_needed ELSE 0) :
          \E mv \in (IF nb_bots_needed > 0 THEN OneMove(cmds) ELSE {"none"}) :
          \E rs \in Streams2 :
            Started(start_game(tick_rate, zone, clients, client_game_modes,
                               used_nicknames, agents, mv, rs), mv)
    /\ stop_waiting_room' = TRUE
    /\ game_thread' = TRUE
    /\ pc' = "loop"
    /\ last' = Did("start_game")
    /\ UNCHANGED <<client_game_modes, addr_to_name, has_clients, tick_counter,
                   game_over, running, in_rooms, closing, tick_rate, server, agent_call, game_duration_seconds, selected, teardown, game2,
                   handler, times>>

\* the result r = <<game, payload>> of one iteration of the game loop; the
\* agents are not asked a second time when nothing is sent
Ticked(r, mvs1, mvs2) ==
    /\ r[2] = EmptyPayload => mvs2 = NoMoves(DOMAIN mvs2)
    /\ game' = [r[1] EXCEPT !.k = 0]
    /\ last' = [Did("tick") EXCEPT !.payload = r[2]]
    /\ cmds' = cmds - Cost(mvs1) - Cost(mvs2)

\* one iteration of the loop of Room.run_game
run_game ==
    /\ pc = "loop"
    /\ tick_counter < total_updates
    /\ running /\ ~game_over
    /\ LET names == DOMAIN game.ai_clients
           tick == tick_counter + 1
       IN \E mvs1 \in MoveChoices(names, cmds) :
          \E mvs2 \in MoveChoices(names, cmds - Cost(mvs1)) :
            Ticked(run_game_tick(game, tick, mvs1, mvs2, TickStream), mvs1, mvs2)
    /\ tick_counter' = tick_counter + 1
    /\ UNCHANGED <<roomVars, tick_rate, server, agent_call, game_duration_seconds, selected, teardown, game2,
                   handler, times>>

\* Room.end_game: final_scores, one entry for each item of game.best_scores,
\* in the order of the dict
final_scores(g) ==
    [i \in 1..Len(g.best_order) |->
        [name |-> g.best_order[i], best_score |-> g.best_scores[g.best_order[i]]]]

\* the exit of the loop of Room.run_game, followed by Room.end_game
end_game ==
    /\ pc = "loop"
    /\ tick_counter >= total_updates \/ ~running \/ game_over
    /\ pc' = "ended"
    /\ game_over' = TRUE
    /\ closing' = IF game_over THEN closing ELSE TRUE
    /\ last' = Did("end_game")
    /\ UNCHANGED <<clients, client_game_modes, addr_to_name, has_clients,
                   used_nicknames, stop_waiting_room, game_thread, game, tick_counter,
                   running, in_rooms, tick_rate, server, agent_call, game_duration_seconds, selected, teardown, cmds, game2,
                   handler, times>>

\* close_room_after_delay of Room.end_game: running = False, Server.remove_room
close_room_after_delay ==
    /\ closing
    /\ closing' = FALSE
    /\ running' = FALSE
    /\ in_rooms' = FALSE
    /\ last' = Did("close_room")
    /\ UNCHANGED <<clients, client_game_modes, addr_to_name, has_clients,
                   used_nicknames, stop_waiting_room, game_thread, game, tick_counter,
                   game_over, pc, tick_rate, server, agent_call, game_duration_seconds, selected, teardown, cmds, game2,
                   handler, times>>

\* a message of a client of the room reaches Server.handle_client_message
CanCommand(addr) ==
    /\ in_rooms
    /\ HasAddr(clients, addr)
    /\ game_thread
    /\ cmds > 0

\* Server.handle_client_message, action "direction"
direction(addr, d) ==
    /\ CanCommand(addr)
    /\ LET nickname == NicknameOf(clients, addr)
       IN /\ game' = send_direction_change(game, nickname, d)
          /\ last' = [Did("direction") EXCEPT !.who = nickname, !.dir = d]
    /\ cmds' = cmds - 1
    /\ UNCHANGED <<roomVars, tick_counter, tick_rate, server, agent_call, game_duration_seconds, selected, teardown, game2,
                   handler, times>>

\* Server.handle_client_message, action "drop_wagon"
drop_wagon_message(addr) ==
    /\ CanCommand(addr)
    /\ LET nickname == NicknameOf(clients, addr)
           g == send_drop_wagon_request(game, nickname)
       IN /\ game' = g
          /\ last' = [Did("drop_wagon") EXCEPT
                        !.who = nickname,
                        !.ok = (g # game),
                        !.remaining =
                            IF /\ g = game
                               /\ contains_train(game, nickname)
                               /\ game.trains[nickname].boost_cooldown_active
                            THEN get_boost_cooldown_time(game.trains[nickname],
                                                         game.current_tick)
                            ELSE 0]
    /\ cmds' = cmds - 1
    /\ UNCHANGED <<roomVars, tick_counter, tick_rate, server, agent_call, game_duration_seconds, selected, teardown, game2,
                   handler, times>>

\* Server.handle_client_message, action "respawn"
respawn(addr) ==
    /\ CanCommand(addr)
    /\ LET nickname == NicknameOf(clients, addr)
       IN /\ IF game_over \/ get_train_cooldown_ticks(game, nickname) > 0
             THEN game' = game
             ELSE \E rs \in Streams1 :
                    game' = [add_train(game, nickname, rs) EXCEPT !.k = 0]
          /\ last' = [Did("respawn") EXCEPT
                        !.who = nickname,
                        !.ok = ~(game_over \/ get_train_cooldown_ticks(game, nickname) > 0)]
    /\ cmds' = cmds - 1
    /\ UNCHANGED <<roomVars, tick_counter, tick_rate, server, agent_call, game_duration_seconds, selected, teardown, game2,
                   handler, times>>

\* what Room.replace_player_by_ai leaves: r = [g, payload, bits_kept]
Replaced(r, original_nickname) ==
    /\ game' = r.g
    /\ last' = [Did("replace") EXCEPT
                  !.who = original_nickname,
                  !.payload = r.payload,
                  !.bits_kept = r.bits_kept]

\* a count that takes the bots of the room for clients too
all_clients_count(cl) == Len(cl)

\* Server.handle_client_disconnection: human_clients_count, the clients left
\* whose address is not an ("AI", name) pair
human_clients_count(cl) == Len(SelectSeq(cl, LAMBDA c : ~IsAI(c.addr)))

\* Server.handle_client_disconnection for a client of the room.  Before
\* Room.start_game a room has no attribute game: with a human left in the
\* room, "if room.game.trains:" raises AttributeError, which leaves the
\* handler before the clean-up of the dictionaries (last.ok tells whether
\* the handler returned).
handle_client_disconnection(addr) ==
    /\ in_rooms
    /\ HasAddr(clients, addr) /\ ~IsAI(addr)
    /\ addr \notin server.disconnected_clients
    /\ cmds > 0
    /\ LET original_nickname == NicknameOf(clients, addr)
           remaining == SelectSeq(clients, LAMBDA c : c.addr # addr)
       IN /\ clients' = remaining
          /\ IF human_clients_count(remaining) = 0
             THEN \* Server.remove_room
                  /\ running' = FALSE
                  /\ in_rooms' = FALSE
                  /\ last' = [Did("disconnect") EXCEPT !.who = original_nickname,
                                                        !.ok = TRUE]
                  /\ server' = CleanUp(MarkDisconnected(server, addr), addr)
                  /\ cmds' = cmds - 1
                  /\ UNCHANGED <<game, used_nicknames>>
             ELSE IF ~game_thread
                  THEN /\ last' = [Did("disconnect") EXCEPT !.who = original_nickname,
                                                             !.ok = FALSE]
                       /\ server' = MarkDisconnected(server, addr)
                       /\ cmds' = cmds - 1
                       /\ UNCHANGED <<game, used_nicknames, running, in_rooms>>
             ELSE IF /\ original_nickname \in DOMAIN game.trains
                     /\ original_nickname \notin DOMAIN game.ai_clients
                  THEN \E agent \in 1..Len(Agents) :
                       \E mv1 \in OneMove(cmds - 1) :
                       \E mv2 \in OneMove(cmds - 1 - (IF mv1 = "none" THEN 0 ELSE 1)) :
                         /\ Replaced(
                              replace_player_by_ai(
                                  game, get_available_ai_name(used_nicknames, Agents[agent]),
                                  original_nickname, mv1, mv2),
                              original_nickname)
                         /\ used_nicknames' = used_nicknames \cup
                              {get_available_ai_name(used_nicknames, Agents[agent])}
                         /\ server' = CleanUp(MarkDisconnected(server, addr), addr)
                         /\ cmds' = cmds - 1 - Cost(<<mv1, mv2>>)
                         /\ UNCHANGED <<running, in_rooms>>
                  ELSE /\ last' = [Did("disconnect") EXCEPT !.who = original_nickname,
                                                             !.ok = TRUE]
                       /\ server' = CleanUp(MarkDisconnected(server, addr), addr)
                       /\ cmds' = cmds - 1
                       /\ UNCHANGED <<game, used_nicknames, running, in_rooms>>
    /\ UNCHANGED <<client_game_modes, addr_to_name, has_clients, stop_waiting_room,
                   game_thread, tick_counter, game_over, pc, closing, tick_rate, agent_call, game_duration_seconds, selected, teardown, game2,
                   handler, times>>

\* one iteration of the loop of AIClient.run
ai_client_run(ai_name, mv) ==
    /\ game_thread /\ running /\ in_rooms
    /\ ai_name \in DOMAIN game.ai_clients
    /\ mv \in OneMove(cmds) \cup Silent
    /\ game' = update_state(game, ai_name, mv)
    /\ last' = [Did("update_state") EXCEPT
                  !.who = ai_name, !.mv = mv, !.payload = get_state(game)[1]]
    /\ cmds' = cmds - (IF mv \in Silent THEN 0 ELSE 1)
    /\ UNCHANGED <<roomVars, tick_counter, tick_rate, server, agent_call, game_duration_seconds, selected, teardown, game2,
                   handler, times>>

Next ==
    \/ \E addr \in ClientAddrs, nickname \in HumanNames \cup ObserverNames,
          game_mode \in GameModes : handle_new_client(addr, nickname, game_mode)
    \/ \E time_up \in BOOLEAN : broadcast_waiting_room(time_up)
    \/ run_game
    \/ end_game
    \/ close_room_after_delay
    \/ \E addr \in ClientAddrs, d \in Directions : direction(addr, d)
    \/ \E addr \in ClientAddrs : drop_wagon_message(addr)
    \/ \E addr \in ClientAddrs : respawn(addr)
    \/ \E addr \in ClientAddrs : handle_client_disconnection(addr)
    \/ \E ai_name \in {Agents[i] : i \in 1..Len(Agents)}
                      \cup {Suffixed(Agents[i]) : i \in 1..Len(Agents)},
          mv \in AgentMoves \cup Silent : ai_client_run(ai_name, mv)

Spec == Init /\ [][Next]_vars

(***************************************************************************)
(* A started match: a full room of two players whose game Room.start_game  *)
(* has just built.  The specifications below explore matches from there.   *)
(***************************************************************************)
TwoPlayers ==
    <<[addr |-> <<"client", 1>>, nickname |-> "ann"],
      [addr |-> <<"client", 2>>, nickname |-> "bob"]>>

TwoModes == [a \in {TwoPlayers[1].addr, TwoPlayers[2].addr} |-> "agent"]

\* the room once start_game has returned game g for the two players
MatchStarted(g) ==
    /\ clients = TwoPlayers
    /\ client_game_modes = TwoModes
    /\ addr_to_name = [a \in DOMAIN TwoModes |->
                         IF a = TwoPlayers[1].addr THEN "ann" ELSE "bob"]
    /\ has_clients = TRUE
    /\ used_nicknames = {}
    /\ stop_waiting_room = TRUE
    /\ game_thread = TRUE
    /\ game = [g EXCEPT !.k = 0]
    /\ tick_counter = 0
    /\ game_over = FALSE
    /\ running = TRUE
    /\ in_rooms = TRUE
    /\ pc = "loop"
    /\ closing = FALSE
    /\ last = Did("start_game")
    /\ handler = NoHandler
    /\ times = Times(0, 0)

\* the game start_game builds for the two players at tick rate tr
MatchGame(tr, zone, rs) ==
    start_game(tr, zone, TwoPlayers, TwoModes, {}, <<>>, "none", rs).g

(***************************************************************************)
(* BoostSpec: a match in which the players send drop_wagon requests        *)
(***************************************************************************)
\* drop_wagon requests in one match
MaxDrops == 2

BoostInit ==
    /\ \E zone \in Zones : \E rs \in Streams2 :
         MatchStarted(MatchGame(REFERENCE_TICK_RATE, zone, rs))
    /\ tick_rate = REFERENCE_TICK_RATE
    /\ game_duration_seconds = GameDurationSeconds
    /\ selected = NoSelection
    /\ teardown = NoTeardown
    /\ server = Registered(clients)
    /\ agent_call = NoAgentCall
    /\ cmds = MaxDrops
    /\ game2 = NoGame

BoostNext ==
    \/ run_game
    \/ \E addr \in ClientAddrs : drop_wagon_message(addr)

BoostSpec == BoostInit /\ [][BoostNext]_vars

(***************************************************************************)
(* CollisionSpec: a match whose trains spawn next to or on each other and  *)
(* whose players steer                                                     *)
(***************************************************************************)
\* spawn draws that put the first train one cell left of the centre, or
\* that leave both trains to the centre fallback
CollisionStreams ==
    {<<[spawn |-> c, pidx |-> 1, val |-> 1],
       [spawn |-> CenterCell, pidx |-> 1, val |-> 1]>> :
        c \in {<<CenterCell[1] - CELL_SIZE, CenterCell[2]>>, CenterCell}}

CollisionInit ==
    /\ \E zone \in Zones : \E rs \in CollisionStreams :
         MatchStarted(MatchGame(REFERENCE_TICK_RATE, zone, rs))
    /\ tick_rate = REFERENCE_TICK_RATE
    /\ game_duration_seconds = GameDurationSeconds
    /\ selected = NoSelection
    /\ teardown = NoTeardown
    /\ server = Registered(clients)
    /\ agent_call = NoAgentCall
    /\ cmds = MaxCmds
    /\ game2 = NoGame

CollisionNext ==
    \/ run_game
    \/ \E addr \in ClientAddrs, d \in Directions : direction(addr, d)

CollisionSpec == CollisionInit /\ [][CollisionNext]_vars

(***************************************************************************)
(* RatesSpec: the same match run twice, game at tick rate R and game2 at   *)
(* tick rate k * R, with the same commands at the same ticks               *)
(***************************************************************************)
\* the tick rates R of the first run
BaseRates == {27, REFERENCE_TICK_RATE}

RatesInit ==
    /\ tick_rate \in BaseRates
    /\ game_duration_seconds = GameDurationSeconds
    /\ selected = NoSelection
    /\ teardown = NoTeardown
    /\ agent_call = NoAgentCall
    /\ \E zone \in Zones : \E rs \in Streams2 :
         /\ MatchStarted(MatchGame(tick_rate, zone, rs))
         /\ \E factor \in 1..MaxRateFactor :
              game2 = [MatchGame(factor * tick_rate, zone, rs) EXCEPT !.k = 0]
    /\ server = Registered(clients)
    /\ cmds = MaxCmds

\* one iteration of the loop of Room.run_game in both runs
run_game_at_both_rates ==
    /\ pc = "loop"
    /\ tick_counter < total_updates
    /\ running /\ ~game_over
    /\ game' = [run_game_tick(game, tick_counter + 1, NoFn, NoFn, TickStream)[1]
                  EXCEPT !.k = 0]
    /\ game2' = [run_game_tick(game2, tick_counter + 1, NoFn, NoFn, TickStream)[1]
                   EXCEPT !.k = 0]
    /\ tick_counter' = tick_counter + 1
    /\ last' = Did("tick")
    /\ UNCHANGED <<roomVars, tick_rate, server, agent_call, game_duration_seconds, selected, teardown, cmds, handler, times>>

\* Server.handle_client_message, action "direction", in both runs
direction_at_both_rates(addr, d) ==
    /\ CanCommand(addr)
    /\ game' = send_direction_change(game, NicknameOf(clients, addr), d)
    /\ game2' = send_direction_change(game2, NicknameOf(clients, addr), d)
    /\ last' = [Did("direction") EXCEPT !.who = NicknameOf(clients, addr), !.dir = d]
    /\ cmds' = cmds - 1
    /\ UNCHANGED <<roomVars, tick_counter, tick_rate, server, agent_call, game_duration_seconds, selected, teardown, handler, times>>

RatesNext ==
    \/ run_game_at_both_rates
    \/ \E addr \in ClientAddrs, d \in Directions : direction_at_both_rates(addr, d)

RatesSpec == RatesInit /\ [][RatesNext]_vars

(***************************************************************************)
(* FairSpec: the room from its creation to the end of the match, with the  *)
(* game thread scheduled.  The thread sleeps a bounded time per iteration, *)
(* so an iteration or the exit of the loop that stays possible is taken.   *)
(***************************************************************************)
FairTickRates == {30, REFERENCE_TICK_RATE}

FairInit ==
    /\ RoomInit
    /\ tick_rate \in FairTickRates
    /\ game_duration_seconds = GameDurationSeconds
    /\ selected = NoSelection
    /\ teardown = NoTeardown
    /\ server = Registered(clients)
    /\ agent_call = NoAgentCall
    /\ cmds = MaxCmds

FairNext ==
    \/ \E addr \in ClientAddrs, nickname \in HumanNames, game_mode \in GameModes :
          handle_new_client(addr, nickname, game_mode)
    \/ \E time_up \in BOOLEAN : broadcast_waiting_room(time_up)
    \/ run_game
    \/ end_game
    \/ close_room_after_delay
    \/ \E addr \in ClientAddrs : handle_client_disconnection(addr)

\* what an iteration of the loop of run_game does to the loop counter; under
\* FairNext the steps that satisfy it are the run_game steps, and it is
\* enabled exactly when run_game is
LoopIteration ==
    /\ pc = "loop"
    /\ tick_counter < total_updates
    /\ running /\ ~game_over
    /\ tick_counter' = tick_counter + 1

\* what the exit of the loop does to the thread
LoopExit ==
    /\ pc = "loop"
    /\ tick_counter >= total_updates \/ ~running \/ game_over
    /\ pc' = "ended"

FairSpec ==
    /\ FairInit
    /\ [][FairNext]_vars
    /\ WF_tick_counter(LoopIteration)
    /\ WF_pc(LoopExit)

(***************************************************************************)
(* Properties of the trains on the grid                                    *)
(***************************************************************************)
OnGrid(position) ==
    /\ position[1] % CELL_SIZE = 0
    /\ position[2] % CELL_SIZE = 0

Opposite(d) == <<-d[1], -d[2]>>

C2_ReverseRejected ==
    [][\A n \in DOMAIN game.trains :
          (/\ last'.op = "direction"
           /\ last'.who = n
           /\ last'.dir = Opposite(game.trains[n].direction))
          => /\ n \in DOMAIN game'.trains
             /\ game'.trains[n].direction = game.trains[n].direction
             /\ game'.trains[n].new_direction = game.trains[n].new_direction]_vars

\* a live train heading right has just been sent LEFT
C2_Witness ==
    /\ last.op = "direction"
    /\ last.who \in DOMAIN game.trains
    /\ game.trains[last.who].alive
    /\ game.trains[last.who].direction = RIGHT
    /\ last.dir = LEFT

\* C3: when a tick moves the head of one live train onto the head of another
\* live train, both trains are dead at the end of that tick and both have
\* been told the reason collision_with_train.
C3_HeadOnBothDie ==
    last.op = "tick" =>
        \A h \in game.hits : \A i \in 1..2 :
            /\ h[i] \in DOMAIN game.trains
            /\ ~game.trains[h[i]].alive
            /\ h[i] \in DOMAIN game.notified
            /\ game.notified[h[i]] = "collision_with_train"

\* the place of nickname n in the update order of game g
OrderIndex(g, n) == CHOOSE i \in 1..Len(g.order) : g.order[i] = n

\* a tick has just ended in which the train updated first moved its head onto
\* the head of a live train that had not been updated yet
C3_Witness ==
    /\ last.op = "tick"
    /\ \E h \in game.hits : OrderIndex(game, h[1]) < OrderIndex(game, h[2])

\* C4: a get_state call made right after another get_state call, with no
\* change to the game in between, returns an empty payload.
C4_SecondGetStateEmpty ==
    (last.op = "update_state" /\ last.mv = "none")
        => get_state(game)[1] = EmptyPayload

\* a get_state call has just returned data and the caller changed nothing
C4_Witness ==
    /\ last.op = "update_state"
    /\ last.mv = "none"
    /\ last.payload # EmptyPayload
    /\ DOMAIN last.payload.trains # {}

\* every field of the game and of each of its trains
FullPayload(g) ==
    [game |-> GameDirtyKeys \ {"trains"},
     trains |-> [n \in DOMAIN g.trains |-> TrainDirtyKeys]]

\* C5: the state handed to the bot that replaces a disconnected player holds
\* every field of the game and of every train, and the query leaves the dirty
\* flags as they were.
C5_ReplacementGetsFullState ==
    last.op = "replace" =>
        /\ last.payload = FullPayload(game)
        /\ last.bits_kept

\* C8: right after start_game in a room whose p counted players are all
\* connected, exactly nb_clients_per_room - p bots have been added and the
\* game holds exactly nb_clients_per_room trains, all alive.
C8_StartFillsRoom ==
    (/\ last.op = "start_game"
     /\ get_player_count(client_game_modes)
          = Len(SelectSeq(clients, LAMBDA c : ~IsAI(c.addr))))
    => /\ Len(game.ai_order)
            = nb_clients_per_room - get_player_count(client_game_modes)
       /\ Cardinality(DOMAIN game.trains) = nb_clients_per_room
       /\ \A n \in DOMAIN game.trains : game.trains[n].alive

(***************************************************************************)
(* Properties of the boost                                                 *)
(***************************************************************************)
\* the length of the cooldown window in ticks of game time
CooldownWindowTicks ==
    ((BOOST_COOLDOWN_DURATION_CS + BOOST_DURATION_CS) * REFERENCE_TICK_RATE) \div 100

\* C6: a drop_wagon request refused inside the cooldown window of an earlier
\* successful drop at tick t0 is answered with a remaining cooldown that is
\* positive and within one tick of (BOOST_COOLDOWN_DURATION + BOOST_DURATION)
\* seconds minus the game time elapsed since t0.
C6_RemainingCooldown ==
    (/\ last.op = "drop_wagon"
     /\ ~last.ok
     /\ last.who \in DOMAIN game.trains
     /\ game.trains[last.who].alive
     /\ game.trains[last.who].boost_cooldown_active
     /\ game.current_tick - game.trains[last.who].start_boost_cooldown_tick
          < CooldownWindowTicks)
    => /\ last.remaining > 0
       /\ Abs(last.remaining
              - (CooldownWindowTicks
                 - (game.current_tick
                    - game.trains[last.who].start_boost_cooldown_tick))) <= 1

\* C7: a successful drop_wagon takes one wagon off the tail, adds a passenger
\* of value 1 at the cell of that wagon and triples the speed; while the
\* boost lasts the speed stays three times the pre-boost speed, and the step
\* that ends the boost puts the speed back to the pre-boost value.
C7_DropWagonBoost ==
    [][\A n \in DOMAIN game.trains :
        /\ (last'.op = "drop_wagon" /\ last'.ok /\ last'.who = n)
           => /\ n \in DOMAIN game'.trains
              /\ Len(game.trains[n].wagons) >= 1
              /\ game'.trains[n].wagons = DropLast(game.trains[n].wagons)
              /\ game'.passengers =
                   Append(game.passengers,
                          [position |-> game.trains[n].wagons[Len(game.trains[n].wagons)],
                           value |-> 1])
              /\ game'.trains[n].speed
                   = Speed(game.trains[n].speed.exp,
                           game.trains[n].speed.mult * BOOST_INTENSITY)
        /\ (/\ n \in DOMAIN game'.trains
            /\ game.trains[n].alive /\ game'.trains[n].alive
            /\ game.trains[n].speed_boost_active)
           => game'.trains[n].speed
                = IF game'.trains[n].speed_boost_active
                  THEN Speed(game.trains[n].normal_speed.exp,
                             game.trains[n].normal_speed.mult * BOOST_INTENSITY)
                  ELSE game.trains[n].normal_speed]_vars

(***************************************************************************)
(* Properties of the tick loop                                             *)
(***************************************************************************)
\* C9: the run at tick rate R and the run at tick rate k * R are in the same
\* game state after every tick and every command (positions, wagons, deaths,
\* cooldowns, scores), the configured tick rate aside.
C9_SameStatesAtBothRates ==
    [game EXCEPT !.tick_rate = 0] = [game2 EXCEPT !.tick_rate = 0]

WaitingTimeBeforeBots == 2

MaxTime == 3

\* Room.broadcast_waiting_room: remaining_time
remaining_time(has, t) ==
    IF has
    THEN LET start_time == IF t.first_client_join_time # -1
                           THEN t.first_client_join_time ELSE 0
             left == WaitingTimeBeforeBots - (t.now - start_time)
         IN IF left > 0 THEN left ELSE 0
    ELSE 0

JoinInit ==
    /\ RoomInit
    /\ tick_rate = REFERENCE_TICK_RATE
    /\ game_duration_seconds = GameDurationSeconds
    /\ selected = NoSelection
    /\ teardown = NoTeardown
    /\ server = Registered(clients)
    /\ agent_call = NoAgentCall
    /\ cmds = MaxCmds

\* time passes
clock ==
    /\ times.now < MaxTime
    /\ times' = [times EXCEPT !.now = @ + 1]
    /\ UNCHANGED <<roomVars, game, tick_counter, tick_rate, server, agent_call, game_duration_seconds, selected, teardown, cmds, last, game2, handler>>

\* handle_new_client up to "selected_room.clients[addr] = nickname"
assign_room(addr, nickname, game_mode) ==
    /\ handler.pc = 0
    /\ in_rooms
    /\ addr \notin DOMAIN addr_to_name
    /\ \A a \in ClientAddrs : a[2] < addr[2] => a \in DOMAIN addr_to_name
    /\ ~is_full(client_game_modes) /\ ~game_thread
    /\ nickname \in NamesAt(addr)
    /\ \A i \in 1..Len(clients) : clients[i].nickname # nickname
    /\ addr_to_name' = Put(addr_to_name, addr, nickname)
    /\ clients' = Append(clients, [addr |-> addr, nickname |-> nickname])
    /\ handler' = [pc |-> 1, addr |-> addr, nickname |-> nickname, game_mode |-> game_mode]
    /\ last' = [Did("join") EXCEPT !.who = nickname]
    /\ server' = Register(server, addr)
    /\ UNCHANGED <<client_game_modes, has_clients, used_nicknames, stop_waiting_room,
                   game_thread, game, tick_counter, game_over, running, in_rooms, pc,
                   closing, tick_rate, agent_call, game_duration_seconds, selected, teardown, cmds, game2, times>>

\* "selected_room.client_game_modes[addr] = game_mode"
set_game_mode ==
    /\ handler.pc = 1
    /\ client_game_modes' = Put(client_game_modes, handler.addr, handler.game_mode)
    /\ handler' = [handler EXCEPT !.pc = 2]
    /\ UNCHANGED <<clients, addr_to_name, has_clients, used_nicknames, stop_waiting_room,
                   game_thread, game, tick_counter, game_over, running, in_rooms, pc,
                   closing, tick_rate, server, agent_call, game_duration_seconds, selected, teardown, cmds, last, game2, times>>

\* "selected_room.has_clients = True"
set_has_clients ==
    /\ handler.pc = 2
    /\ has_clients' = TRUE
    /\ handler' = [handler EXCEPT !.pc = 3]
    /\ UNCHANGED <<clients, client_game_modes, addr_to_name, used_nicknames,
                   stop_waiting_room, game_thread, game, tick_counter, game_over,
                   running, in_rooms, pc, closing, tick_rate, server, agent_call, game_duration_seconds, selected, teardown, cmds, last, game2, times>>

\* "if selected_room.first_client_join_time is None: ... = time.time()"
set_first_client_join_time ==
    /\ handler.pc = 3
    /\ times' = [times EXCEPT !.first_client_join_time = IF @ = -1 THEN times.now ELSE @]
    /\ handler' = NoHandler
    /\ UNCHANGED <<roomVars, game, tick_counter, tick_rate, server, agent_call, game_duration_seconds, selected, teardown, cmds, last, game2>>

\* an iteration of the waiting-room thread that starts the game: the room is
\* full or remaining_time is 0
waiting_room_thread == broadcast_waiting_room(remaining_time(has_clients, times) = 0)

JoinNext ==
    \/ clock
    \/ \E addr \in ClientAddrs, nickname \in HumanNames, game_mode \in GameModes :
          assign_room(addr, nickname, game_mode)
    \/ set_game_mode
    \/ set_has_clients
    \/ set_first_client_join_time
    \/ waiting_room_thread

JoinSpec == JoinInit /\ [][JoinNext]_vars

(***************************************************************************)
(* LockSpec: one iteration of the loop of Room.run_game in three steps,    *)
(* beside the commands of the players.  Game.update takes Game.lock around *)
(* its body; pc is "in_update" while the game thread holds it and          *)
(* "updated" between the return of update and the call of get_state.  The  *)
(* handlers of Server.handle_client_message take no lock.                  *)
(***************************************************************************)
LockInit ==
    /\ \E zone \in Zones : \E rs \in Streams2 :
         MatchStarted(MatchGame(REFERENCE_TICK_RATE, zone, rs))
    /\ tick_rate = REFERENCE_TICK_RATE
    /\ game_duration_seconds = GameDurationSeconds
    /\ selected = NoSelection
    /\ teardown = NoTeardown
    /\ server = Registered(clients)
    /\ agent_call = NoAgentCall
    /\ cmds = MaxCmds
    /\ game2 = NoGame

\* Room.run_game from the loop header into Game.update: the lock is taken
\* and check_collisions has run
enter_update ==
    /\ pc = "loop"
    /\ tick_counter < total_updates
    /\ running /\ ~game_over
    /\ DOMAIN game.trains # {}
    /\ game' = check_collisions([game EXCEPT !.current_tick = tick_counter + 1,
                                             !.hits = {}], TickStream)
    /\ pc' = "in_update"
    /\ last' = Did("check_collisions")
    /\ UNCHANGED <<clients, client_game_modes, addr_to_name, has_clients,
                   used_nicknames, stop_waiting_room, game_thread, tick_counter,
                   game_over, running, in_rooms, closing, tick_rate, server, agent_call, game_duration_seconds, selected, teardown, cmds, game2,
                   handler, times>>

\* the rest of Game.update: the two loops after check_collisions, then the
\* lock is released
leave_update ==
    /\ pc = "in_update"
    /\ game' = UpdateAIClients(ExpireDeathTicks(game, TickStream),
                               NoMoves(DOMAIN game.ai_clients), TickStream)
    /\ pc' = "updated"
    /\ last' = Did("update")
    /\ UNCHANGED <<clients, client_game_modes, addr_to_name, has_clients,
                   used_nicknames, stop_waiting_room, game_thread, tick_counter,
                   game_over, running, in_rooms, closing, tick_rate, server, agent_call, game_duration_seconds, selected, teardown, cmds, game2,
                   handler, times>>

\* Room.run_game after game.update(): get_dirty_state and the broadcast
send_state ==
    /\ pc = "updated"
    /\ Ticked(SendState(game, tick_counter + 1, NoMoves(DOMAIN game.ai_clients)),
              NoMoves(DOMAIN game.ai_clients), NoMoves(DOMAIN game.ai_clients))
    /\ tick_counter' = tick_counter + 1
    /\ pc' = "loop"
    /\ UNCHANGED <<clients, client_game_modes, addr_to_name, has_clients,
                   used_nicknames, stop_waiting_room, game_thread, game_over, running,
                   in_rooms, closing, tick_rate, server, agent_call, game_duration_seconds, selected, teardown, game2, handler, times>>

LockNext ==
    \/ enter_update
    \/ leave_update
    \/ send_state
    \/ \E addr \in ClientAddrs, d \in Directions : direction(addr, d)
    \/ \E addr \in ClientAddrs : drop_wagon_message(addr)
    \/ \E addr \in ClientAddrs : respawn(addr)

LockSpec == LockInit /\ [][LockNext]_vars

(***************************************************************************)
(* Properties of the respawn cooldown                                      *)
(***************************************************************************)
\* C11: for every dead train, at every configured tick rate, the remaining
\* respawn cooldown the game returns is
\* max(0, cooldownTicks - (current_tick - death_tick)) / REFERENCE_TICK_RATE
\* seconds, with cooldownTicks = respawn_cooldown_seconds * REFERENCE_TICK_RATE.
C11_RespawnCooldownSeconds ==
    game_thread =>
        \A n \in DOMAIN game.trains :
            (~game.trains[n].alive /\ HasDeathTick(game, n)) =>
                LET cooldownTicks == (RespawnCooldownDs * REFERENCE_TICK_RATE) \div 10
                    left == cooldownTicks - (game.current_tick - DeathTickOf(game, n))
                    expected == IF left > 0 THEN left ELSE 0
                    returned == get_train_cooldown(game, n)
                IN returned[1] * REFERENCE_TICK_RATE = expected * returned[2]

(***************************************************************************)
(* Properties of the state broadcast                                       *)
(***************************************************************************)
\* C12: every mutation of a train's visible fields reaches the network
\* participants: a dirty flag of a train is only ever cleared by a step of the
\* game loop whose broadcast payload reports that field of that train,
\* however the bot adapters' own reads interleave with the loop.
C12_MutationsReachBroadcast ==
    [][\A n \in DOMAIN game.trains \cap DOMAIN game'.trains :
          \A key \in game.trains[n].dirty \ game'.trains[n].dirty :
              /\ last'.op = "tick"
              /\ n \in DOMAIN last'.payload.trains
              /\ key \in last'.payload.trains[n]]_vars

(***************************************************************************)
(* Properties of the room's life cycle                                     *)
(***************************************************************************)
\* waiting, playing, game over, closed
RoomPhase ==
    IF ~running THEN 3 ELSE IF game_over THEN 2 ELSE IF game_thread THEN 1 ELSE 0

\* C13: the phase of a room never moves backwards and a room never has two
\* games: once start_game has built the Game no later step builds another
\* or starts another game thread, and game_over, once True, stays True.
C13_OneGamePerRoom ==
    [][/\ RoomPhase' >= RoomPhase
       /\ game_thread => (game_thread' /\ last'.op # "start_game")
       /\ game_over => game_over']_vars

C13_Witness == game_thread /\ game_over /\ last.op = "close_room"

\* C14: outside grading mode a room starts its game only when the player count
\* has reached nb_players_max or waiting_time_before_bots_seconds have passed
\* since the first client joined, however handle_new_client interleaves with
\* the waiting-room thread.
C14_StartsWhenFullOrTimeUp ==
    [][(game_thread' /\ ~game_thread) =>
          \/ is_full(client_game_modes)
          \/ /\ times.first_client_join_time # -1
             /\ times.now - times.first_client_join_time >= WaitingTimeBeforeBots]_vars

\* C15: when a disconnection removes the last client of a room that is not a
\* bot, that same step closes the room: running becomes False, the room leaves
\* the server's registry, and no replacement bot is created.
C15_LastHumanClosesRoom ==
    [][((\E i \in 1..Len(clients) : ~IsAI(clients[i].addr))
        /\ (\A i \in 1..Len(clients') : IsAI(clients'[i].addr)))
       => /\ ~running' /\ ~in_rooms'
          /\ game'.ai_clients = game.ai_clients
          /\ game'.trains = game.trains
          /\ Len(clients') = Len(clients) - 1]_vars

\* the last human has left a running game in which a bot plays
C15_Witness ==
    /\ last.op = "disconnect"
    /\ ~running /\ ~in_rooms /\ game_thread
    /\ DOMAIN game.ai_clients # {}
    /\ \A i \in 1..Len(clients) : IsAI(clients[i].addr)

(***************************************************************************)
(* Properties of the agents                                                *)
(***************************************************************************)
\* a train without its dirty flags
Fields(t) == [t EXCEPT !.dirty = {}]

DeathReasons == {"self_collision", "collision_with_train", "collision_with_wagon",
                 "out_of_bounds"}

\* the state Game.handle_train_death leaves a train in
DeadState(t) == ~t.alive /\ t.position = <<-1, -1>> /\ t.wagons = <<>>

\* C17: a train that handle_train_death names is still in game.trains, not
\* alive, at the sentinel position and without wagons; its death tick is the
\* current tick and a cooldown notification with one of the four death
\* reasons was issued; it stays in that state until a respawn replaces it.
C17_DeadUntilRespawn ==
    [][\A n \in DOMAIN game.trains :
          /\ last'.op = "tick" => n \in DOMAIN game'.trains
          /\ (game.trains[n].alive /\ last'.op = "tick" /\ ~game'.trains[n].alive)
                => /\ DeadState(game'.trains[n])
                   /\ HasDeathTick(game', n)
                   /\ DeathTickOf(game', n) = game'.current_tick
                   /\ n \in DOMAIN game'.notified
                   /\ game'.notified[n] \in DeathReasons
          /\ ~game.trains[n].alive
                => /\ DeadState(game.trains[n])
                   /\ n \in DOMAIN game'.trains
                   /\ \/ DeadState(game'.trains[n])
                      \/ last'.op \in {"respawn", "tick"}]_vars

(***************************************************************************)
(* Properties of the end of the game                                       *)
(***************************************************************************)
\* C18: the final_scores that end_game sends are ordered by best score, the
\* highest first, so final_scores[0] holds the maximum best score.
C18_FinalScoresSorted ==
    (last.op = "end_game" /\ game_thread) =>
        \A i, j \in 1..Len(final_scores(game)) :
            i < j => final_scores(game)[i].best_score >= final_scores(game)[j].best_score

(***************************************************************************)
(* Properties of the game lock                                             *)
(***************************************************************************)
\* C19: every access that changes the game's entities or dirty flags runs
\* under the game's lock, so no command of a player (direction, drop_wagon,
\* respawn) is applied inside a tick, that is between the moment Game.update
\* takes the lock and the extraction of the dirty state.
C19_CommandsOutsideTick ==
    [][last'.op \in {"direction", "drop_wagon", "respawn"} => pc = "loop"]_vars

(***************************************************************************)
(* Properties of a refused drop                                            *)
(***************************************************************************)
\* the trains Train.drop_wagon refuses
Refused(t) ==
    ~t.alive \/ t.speed_boost_active \/ t.boost_cooldown_active \/ Len(t.wagons) = 0

\* C20: a drop_wagon request for a train that is dead, has a boost or a
\* cooldown active, or has no wagons changes nothing: the train (wagons,
\* speed, boost and cooldown flags, cooldown start tick), the passenger list
\* and the rest of the game are as before, and the answer is drop_wagon_failed.
C20_RefusedDropIsNoOp ==
    [][(/\ last'.op = "drop_wagon"
        /\ cmds' < cmds
        /\ contains_train(game, last'.who)
        /\ Refused(game.trains[last'.who]))
       => (game' = game /\ ~last'.ok)]_vars

\* a drop was refused to a live train that has a wagon and is cooling down
C20_Witness ==
    /\ last.op = "drop_wagon" /\ ~last.ok
    /\ contains_train(game, last.who)
    /\ game.trains[last.who].alive
    /\ game.trains[last.who].boost_cooldown_active
    /\ Len(game.trains[last.who].wagons) > 0

(***************************************************************************)
(* Properties of the collision pass                                        *)
(***************************************************************************)
RECURSIVE Reverse(_)
Reverse(s) == IF s = <<>> THEN <<>> ELSE Append(Reverse(Tail(s)), Head(s))

\* the trains of g0 that are dead in g1, each with the reason notified
Deaths(g0, g1) ==
    [n \in {m \in DOMAIN g0.trains : g0.trains[m].alive /\ ~g1.trains[m].alive}
        |-> g1.notified[n]]

\* the game at the head of the loop of Room.run_game, entering tick number tick
AtTick(g, tick) == [g EXCEPT !.current_tick = tick, !.hits = {}]

\* C21: within one tick, which trains die and with which reason does not
\* depend on the order in which the trains are updated: the collision pass
\* run over the trains in the opposite order kills the same trains for the
\* same reasons.
C21_DeathsOrderIndependent ==
    (game_thread /\ pc = "loop" /\ tick_counter < total_updates) =>
        Deaths(game, CheckEach(AtTick(game, tick_counter + 1), game.order, TickStream))
        = Deaths(game, CheckEach(AtTick(game, tick_counter + 1), Reverse(game.order),
                                 TickStream))

(***************************************************************************)
(* Properties of the delivery step                                         *)
(***************************************************************************)
\* the case in which the claim lets train n deliver a wagon in game g
DeliveryDue(g, n) ==
    /\ g.trains[n].alive
    /\ contains(g.delivery_zone, g.trains[n].position)
    /\ Len(g.trains[n].wagons) > 0
    /\ \/ n \notin DOMAIN g.last_delivery_ticks
       \/ g.current_tick - g.last_delivery_ticks[n] >= get_delivery_cooldown_ticks(g)

\* what the delivery step d of game g did for train n
Delivered(g, d, n) ==
    /\ d.trains[n].wagons = DropLast(g.trains[n].wagons)
    /\ d.trains[n].score = g.trains[n].score + 1
    /\ n \in DOMAIN d.last_delivery_ticks
    /\ d.last_delivery_ticks[n] = g.current_tick

NotDelivered(g, d, n) ==
    /\ d.trains[n].wagons = g.trains[n].wagons
    /\ d.trains[n].score = g.trains[n].score
    /\ d.last_delivery_ticks = g.last_delivery_ticks

LongGameSeconds == 11

\* ticks of the match played before the specification takes it up
PlayedTicks == 590

\* the ticks after which the first drop_wagon request may have come
FirstDropTicks == {12, 13}

\* the corners of the loop and the direction the player sends at each
Corners ==
    {<<<<6 * CELL_SIZE, 3 * CELL_SIZE>>, DOWN>>,
     <<<<6 * CELL_SIZE, 21 * CELL_SIZE>>, LEFT>>,
     <<<<1 * CELL_SIZE, 21 * CELL_SIZE>>, UP>>,
     <<<<1 * CELL_SIZE, 3 * CELL_SIZE>>, RIGHT>>}

\* the game after the "direction" message of a player who turns train n at
\* the corners of the loop (Server.handle_client_message, action "direction")
Steer(g, n) ==
    IF \E c \in Corners : c[1] = g.trains[n].position
    THEN send_direction_change(g, n,
            (CHOOSE c \in Corners : c[1] = g.trains[n].position)[2])
    ELSE g

\* the game after iteration tick + 1 of the loop of Room.run_game, with the
\* player of train n steering and sending drop_wagon after tick t0
PlayedTick(g, n, t0, tick) ==
    [run_game_tick(Steer(IF tick = t0 THEN send_drop_wagon_request(g, n) ELSE g, n),
                   tick + 1, NoFn, NoFn, TickStream)[1] EXCEPT !.k = 0]

\* the game g of tick number tick after the iterations tick + 1 .. last_tick
\* of that loop.  The ticks are played in two halves; the set constructor and
\* the equality make the model checker build the game between the halves, with
\* the functions in it, before the second half starts.
RECURSIVE Played(_, _, _, _, _)
Played(g, n, t0, tick, last_tick) ==
    IF tick = last_tick THEN g
    ELSE IF tick + 1 = last_tick THEN PlayedTick(g, n, t0, tick)
    ELSE CHOOSE played \in
             {Played(half, n, t0, (tick + last_tick) \div 2, last_tick) :
                 half \in {Played(g, n, t0, tick, (tick + last_tick) \div 2)}} :
             played = played

CooldownInit ==
    /\ clients = TwoPlayers
    /\ client_game_modes = TwoModes
    /\ addr_to_name = [a \in DOMAIN TwoModes |->
                         IF a = TwoPlayers[1].addr THEN "ann" ELSE "bob"]
    /\ has_clients = TRUE
    /\ used_nicknames = {}
    /\ stop_waiting_room = TRUE
    /\ game_thread = TRUE
    /\ tick_rate = REFERENCE_TICK_RATE
    /\ game_duration_seconds = LongGameSeconds
    /\ selected = NoSelection
    /\ teardown = NoTeardown
    /\ server = Registered(clients)
    /\ agent_call = NoAgentCall
    /\ \E zone \in Zones : \E rs \in Streams2 : \E t0 \in FirstDropTicks :
         \E g \in {MatchGame(REFERENCE_TICK_RATE, zone, rs)} :
            game = Played(g, "ann", t0, 0, PlayedTicks)
    /\ tick_counter = PlayedTicks
    /\ game_over = FALSE
    /\ running = TRUE
    /\ in_rooms = TRUE
    /\ pc = "loop"
    /\ closing = FALSE
    /\ last = Did("tick")
    /\ handler = NoHandler
    /\ times = Times(0, 0)
    /\ cmds = MaxDrops
    /\ game2 = NoGame

CooldownNext ==
    \/ run_game
    \/ \E addr \in ClientAddrs : drop_wagon_message(addr)

CooldownSpec ==
    /\ CooldownInit
    /\ [][CooldownNext]_vars
    /\ WF_tick_counter(LoopIteration)

\* train n is alive and in the cooldown of a drop
Cooling(n) ==
    /\ n \in DOMAIN game.trains
    /\ game.trains[n].alive
    /\ game.trains[n].boost_cooldown_active

BoostState(t) ==
    IF t.speed_boost_active /\ t.boost_cooldown_active THEN "Boosted"
    ELSE IF t.boost_cooldown_active THEN "CoolingDown"
    ELSE IF t.speed_boost_active THEN "BoostOnly"
    ELSE "Normal"

\* C24: a train is always Normal (neither flag), Boosted (speed_boost_active
\* and boost_cooldown_active) or CoolingDown (boost_cooldown_active alone),
\* never boosted without a cooldown; and a boost starts only from Normal.
C24_BoostStates ==
    [][\A n \in DOMAIN game.trains :
          /\ BoostState(game.trains[n]) \in {"Normal", "Boosted", "CoolingDown"}
          /\ n \in DOMAIN game'.trains
             => /\ BoostState(game'.trains[n]) \in {"Normal", "Boosted", "CoolingDown"}
                /\ (/\ game'.trains[n].speed_boost_active
                    /\ \/ ~game.trains[n].speed_boost_active
                       \/ game'.trains[n].speed_boost_timer > game.trains[n].speed_boost_timer
                       \/ game'.trains[n].start_boost_cooldown_tick
                             # game.trains[n].start_boost_cooldown_tick)
                   => BoostState(game.trains[n]) = "Normal"]_vars

\* a train whose boost has run out is cooling down after a tick
C24_Witness ==
    /\ last.op = "tick"
    /\ \E n \in DOMAIN game.trains :
          /\ game.trains[n].alive
          /\ BoostState(game.trains[n]) = "CoolingDown"
          /\ game.trains[n].speed_boost_timer < 0

(***************************************************************************)
(* Properties of the speed                                                 *)
(***************************************************************************)
\* C25: a live train that is not boosted has the speed
\* INITIAL_SPEED * SPEED_DECREMENT_COEFFICIENT ^ len(wagons), after pickups,
\* deliveries, a wagon drop and the end of a boost alike.
C25_SpeedFollowsWagons ==
    \A n \in DOMAIN game.trains :
        (game.trains[n].alive /\ ~game.trains[n].speed_boost_active)
            => game.trains[n].speed = Speed(Len(game.trains[n].wagons), 1)

(***************************************************************************)
(* Properties of the passenger count                                       *)
(***************************************************************************)
\* the trains of game g that are alive
LiveTrains(g) == {n \in DOMAIN g.trains : g.trains[n].alive}

\* C26: the desired passenger count is the number of the trains alive
\* divided by TRAINS_PASSENGER_RATIO, dead trains kept in the train map left
\* out: in a tick in which no train dies and a train picks up a passenger, the
\* count used is that of the live trains, and (no wagon being dropped in the
\* tick) the passenger picked up is put back only when the passengers do not
\* exceed it.
C26_DesiredCountsLiveTrains ==
    [][(/\ last'.op = "tick"
        /\ LiveTrains(game') = LiveTrains(game)
        /\ \A n \in DOMAIN game.trains :
              game'.trains[n].start_boost_cooldown_tick
                 = game.trains[n].start_boost_cooldown_tick
        /\ \E n \in LiveTrains(game) :
              Len(game'.trains[n].wagons) > Len(game.trains[n].wagons))
       => /\ desired_passengers(game)
                = Cardinality(LiveTrains(game)) \div TRAINS_PASSENGER_RATIO
          /\ \/ Len(game'.passengers)
                   <= Cardinality(LiveTrains(game)) \div TRAINS_PASSENGER_RATIO
             \/ Len(game'.passengers) < Len(game.passengers)]_vars

(***************************************************************************)
(* Properties of the wagons and of the moves                               *)
(***************************************************************************)
\* cells a and b are next to each other on the grid
NextTo(a, b) == Abs(a[1] - b[1]) + Abs(a[2] - b[2]) = CELL_SIZE

\* C27: the wagons of a live train are the cells its head left, the one left
\* last first: wagons[0] is the cell the head left on its last move and each
\* later entry is the cell left one move earlier, so next to the one before;
\* this holds after add_wagons on a pickup as well.
C27_WagonsFollowHead ==
    \A n \in DOMAIN game.trains :
        (game.trains[n].alive /\ Len(game.trains[n].wagons) > 0)
            => /\ game.trains[n].wagons[1] = game.trains[n].last_position
               /\ \A i \in 1..(Len(game.trains[n].wagons) - 1) :
                     NextTo(game.trains[n].wagons[i], game.trains[n].wagons[i + 1])

\* what Train.update is claimed to do to the live train t, u being the train
\* after it: the timer counts one up, and when it has reached
\* REFERENCE_TICK_RATE / speed the train moves one cell
UpdatedAsClaimed(t, u) ==
    IF MoveDue(t.move_timer + 1, u.speed)
    THEN /\ u.move_timer = 0
         /\ u.direction = t.new_direction
         /\ u.position = <<t.position[1] + t.new_direction[1] * CELL_SIZE,
                           t.position[2] + t.new_direction[2] * CELL_SIZE>>
         /\ u.last_position = t.position
         /\ u.wagons = IF t.wagons = <<>> THEN <<>>
                       ELSE DropLast(<<t.position>> \o t.wagons)
    ELSE /\ u.move_timer = t.move_timer + 1
         /\ u.direction = t.direction
         /\ u.position = t.position
         /\ u.wagons = t.wagons

\* C28: an update of a live train adds 1 to move_timer; the train moves in
\* that update exactly when move_timer has reached REFERENCE_TICK_RATE / speed;
\* the move sets move_timer to 0, takes new_direction as the direction, puts
\* the head one cell further in that direction and, when there are wagons,
\* puts the old head in front of them and drops the last.  No train moves
\* more than one cell in a tick.
C28_OneCellWhenDue ==
    [][\A n \in DOMAIN game.trains :
          /\ (/\ game_thread
              /\ game.trains[n].alive
              /\ update(AtTick(game, tick_counter + 1), n, TickStream).trains[n].alive)
             => UpdatedAsClaimed(game.trains[n],
                    update(AtTick(game, tick_counter + 1), n, TickStream).trains[n])
          /\ (/\ last'.op = "tick"
              /\ game.trains[n].alive
              /\ game'.trains[n].alive)
             => \/ game'.trains[n].position = game.trains[n].position
                \/ /\ NextTo(game'.trains[n].position, game.trains[n].position)
                   /\ game'.trains[n].move_timer = 0]_vars

\* a train with a wagon has just moved one cell in a direction it was sent
C28_Witness ==
    /\ last.op = "tick"
    /\ \E n \in DOMAIN game.trains :
          /\ game.trains[n].alive
          /\ game.trains[n].move_timer = 0
          /\ game.trains[n].direction # RIGHT
          /\ Len(game.trains[n].wagons) > 0
          /\ game.trains[n].wagons[1] = game.trains[n].last_position
          /\ game.trains[n].position =
                <<game.trains[n].last_position[1] + game.trains[n].direction[1] * CELL_SIZE,
                  game.trains[n].last_position[2] + game.trains[n].direction[2] * CELL_SIZE>>

\* ---------------------------------------------------------------------------
\* C29: the replica kept in game.replica started empty, received the diff of
\* every get_state() call in order and merged it per train as
\* GameState.handle_state_data does. After one more call, made in any state
\* the room can be in, the replica holds for every train of the server the
\* server's current position, direction, wagons, score, alive and
\* boost_cooldown_active, however many writes happened since the last call.

InSync(g) ==
    \A n \in DOMAIN g.trains :
        /\ n \in DOMAIN g.replica
        /\ \A k \in VisibleKeys :
              /\ k \in DOMAIN g.replica[n]
              /\ g.replica[n][k] = g.trains[n][k]

MaxPool == 3
\* the largest nb_bots_needed
MaxBotsNeeded == 5

BotsInit ==
    /\ RoomInit
    /\ tick_rate = REFERENCE_TICK_RATE
    /\ game_duration_seconds = GameDurationSeconds
    /\ cmds = MaxCmds
    /\ \E nb_agents \in 1..MaxPool : \E nb_bots_needed \in 0..MaxBotsNeeded :
          selected = [nb_agents |-> nb_agents, nb_bots_needed |-> nb_bots_needed,
                      agents |-> <<>>, returned |-> FALSE]
    /\ teardown = NoTeardown
    /\ server = Registered(clients)
    /\ agent_call = NoAgentCall

\* fill_with_bots up to agents = agents[:nb_bots_needed].
select_bots ==
    /\ ~selected.returned
    /\ \E agents \in IF selected.nb_bots_needed <= 0 THEN {<<>>}
                     ELSE select_agents(selected.nb_agents, selected.nb_bots_needed) :
          selected' = [selected EXCEPT !.agents = agents, !.returned = TRUE]
    /\ UNCHANGED <<roomVars, game, tick_counter, tick_rate, server, agent_call, game_duration_seconds,
                   teardown, cmds, last, game2, handler, times>>

BotsNext == select_bots

BotsSpec == BotsInit /\ [][BotsNext]_vars

\* C30: a call of fill_with_bots(k) on a non-empty pool selects exactly k
\* configurations of the pool; with k at most the size of the pool none is
\* selected twice, and with k above it every configuration of the pool is
\* selected at least once.
C30_FillWithBotsSelection ==
    selected.returned =>
        LET agents == selected.agents
            k == selected.nb_bots_needed
            pool == 1..selected.nb_agents
        IN /\ Len(agents) = k
           /\ \A i \in 1..k : agents[i] \in pool
           /\ k <= selected.nb_agents =>
                 \A i, j \in 1..k : i # j => agents[i] # agents[j]
           /\ k > selected.nb_agents =>
                 \A c \in pool : \E i \in 1..k : agents[i] = c

\* A call that needed more bots than a pool of several configurations holds,
\* and repeated one of them.
C30_Witness ==
    /\ selected.returned
    /\ selected.nb_agents >= 2
    /\ selected.nb_bots_needed > selected.nb_agents
    /\ \E i, j \in 1..Len(selected.agents) : i # j /\ selected.agents[i] = selected.agents[j]

(***************************************************************************)
(* TurnSpec: a match in which the direction messages of the players are    *)
(* handled on the transport thread in two steps, the test of               *)
(* Train.change_direction and its store, beside the loop of Room.run_game. *)
(***************************************************************************)

\* the direction messages of a match
TurnCmds == 2

TurnInit ==
    /\ \E zone \in Zones : \E rs \in Streams2 :
         MatchStarted(MatchGame(REFERENCE_TICK_RATE, zone, rs))
    /\ tick_rate = REFERENCE_TICK_RATE
    /\ game_duration_seconds = GameDurationSeconds
    /\ selected = NoSelection
    /\ teardown = NoTeardown
    /\ server = Registered(clients)
    /\ agent_call = NoAgentCall
    /\ cmds = TurnCmds
    /\ game2 = NoGame

\* Server.handle_client_message, action "direction", up to the test
\* `if not self.is_opposite_direction(new_direction)` of change_direction
direction_test(addr, d) ==
    /\ CanCommand(addr)
    /\ handler.pc = 0
    /\ LET nickname == NicknameOf(clients, addr)
       IN /\ contains_train(game, nickname)
          /\ handler' = [pc |-> IF is_opposite_direction(game.trains[nickname], d)
                                THEN 0 ELSE 1,
                         addr |-> addr, nickname |-> nickname, game_mode |-> "",
                         direction |-> d]
          /\ last' = [Did("direction") EXCEPT !.who = nickname, !.dir = d]
    /\ cmds' = cmds - 1
    /\ UNCHANGED <<roomVars, game, tick_counter, tick_rate, server, agent_call, game_duration_seconds,
                   selected, teardown, game2, times>>

\* the store `self.new_direction = new_direction` of change_direction
direction_store ==
    /\ handler.pc = 1
    /\ game' = [game EXCEPT !.trains[handler.nickname].new_direction = handler.direction]
    /\ handler' = [handler EXCEPT !.pc = 0]
    /\ last' = [Did("direction") EXCEPT !.who = handler.nickname, !.dir = handler.direction,
                                        !.ok = TRUE]
    /\ UNCHANGED <<roomVars, tick_counter, tick_rate, server, agent_call, game_duration_seconds,
                   selected, teardown, cmds, game2, times>>

TurnNext ==
    \/ run_game
    \/ \E addr \in ClientAddrs, d \in Directions : direction_test(addr, d)
    \/ direction_store

TurnSpec == TurnInit /\ [][TurnNext]_vars

\* C31: over every step of the match, a train that is alive before and after
\* the step never has the exact reverse of the direction it had before it;
\* the direction changes only when a move commits new_direction, so a train
\* never heads back onto its own first wagon.
C31_NoReversalBetweenMoves ==
    [][\A n \in (DOMAIN game.trains) \cap (DOMAIN game'.trains) :
          (game.trains[n].alive /\ game'.trains[n].alive)
              => game'.trains[n].direction # Opposite(game.trains[n].direction)]_vars

\* ---------------------------------------------------------------------------
\* respawn_cooldown_seconds * REFERENCE_TICK_RATE, in ticks
ReferenceCooldownTicks == (RespawnCooldownDs * REFERENCE_TICK_RATE) \div 10

\* the train n is dead before the step and alive after it
RespawnedInStep(n) ==
    /\ n \in (DOMAIN game.trains) \cap (DOMAIN game'.trains)
    /\ ~game.trains[n].alive
    /\ game'.trains[n].alive

\* C32: a step that makes a dead train alive again, whether it is a respawn
\* request, the respawn of a bot in Game.update or the respawn of a bot that
\* took over a dead train, happens at least
\* respawn_cooldown_seconds * REFERENCE_TICK_RATE ticks after the tick of the
\* train's death.
C32_NoRespawnInsideCooldown ==
    [][\A n \in DOMAIN game'.trains :
          (RespawnedInStep(n) /\ n \in DOMAIN game'.died)
              => game'.current_tick - game'.died[n] >= ReferenceCooldownTicks]_vars

(***************************************************************************)
(* RemoveSpec: a room from its creation to its removal. The last human     *)
(* client to leave makes Server.remove_room run step by step on the        *)
(* transport thread, beside the game thread (one tick in three steps) and  *)
(* the threads of the bots.                                                *)
(***************************************************************************)

\* room.game_thread.join(timeout=2.0), in seconds
JoinTimeout == 2

\* the bots remove_room stops: the keys of room.ai_clients
ai_to_remove_none(g) == {}

ai_to_remove(g) == DOMAIN g.ai_clients

\* room.game_thread and room.game_thread.is_alive()
game_thread_is_alive == game_thread /\ pc # "ended"

RemoveInit ==
    /\ RoomInit
    /\ tick_rate = REFERENCE_TICK_RATE
    /\ game_duration_seconds = GameDurationSeconds
    /\ selected = NoSelection
    /\ teardown = NoTeardown
    /\ server = Registered(clients)
    /\ agent_call = NoAgentCall
    /\ cmds = MaxCmds

\* Server.handle_client_disconnection of the last human client, up to the
\* flags set by remove_room (steps 1 and 2)
remove_room_signal(addr) ==
    /\ in_rooms
    /\ HasAddr(clients, addr) /\ ~IsAI(addr)
    /\ cmds > 0
    /\ teardown.pc = "idle"
    /\ human_clients_count(SelectSeq(clients, LAMBDA c : c.addr # addr)) = 0
    /\ clients' = SelectSeq(clients, LAMBDA c : c.addr # addr)
    /\ running' = FALSE
    /\ teardown' = [teardown EXCEPT !.pc = IF game_thread_is_alive THEN "join" ELSE "stop",
                                    !.addr = addr]
    /\ last' = [Did("disconnect") EXCEPT !.who = NicknameOf(clients, addr)]
    /\ server' = MarkDisconnected(server, addr)
    /\ cmds' = cmds - 1
    /\ UNCHANGED <<client_game_modes, addr_to_name, has_clients, used_nicknames,
                   stop_waiting_room, game_thread, game, tick_counter, game_over,
                   in_rooms, pc, closing, tick_rate, agent_call, game_duration_seconds, selected,
                   game2, handler, times>>

\* step 3: room.game_thread.join(timeout=2.0), one second at a time
join_game_thread ==
    /\ teardown.pc = "join"
    /\ teardown' = IF ~game_thread_is_alive \/ teardown.waited = JoinTimeout
                   THEN [teardown EXCEPT !.pc = "stop"]
                   ELSE [teardown EXCEPT !.waited = @ + 1]
    /\ UNCHANGED <<roomVars, game, tick_counter, tick_rate, server, agent_call, game_duration_seconds,
                   selected, cmds, last, game2, handler, times>>

\* step 4: ai_client.stop() for every bot of the room
stop_ai_clients ==
    /\ teardown.pc = "stop"
    /\ teardown' = [teardown EXCEPT !.pc = "delete", !.stopped = ai_to_remove(game)]
    /\ UNCHANGED <<roomVars, game, tick_counter, tick_rate, server, agent_call, game_duration_seconds,
                   selected, cmds, last, game2, handler, times>>

\* step 5: del self.rooms[room_id]; remove_room returns into
\* handle_client_disconnection, which clears the entries of the client
delete_room ==
    /\ teardown.pc = "delete"
    /\ teardown' = [teardown EXCEPT !.pc = "returned"]
    /\ in_rooms' = FALSE
    /\ server' = CleanUp(server, teardown.addr)
    /\ UNCHANGED <<clients, client_game_modes, addr_to_name, has_clients, used_nicknames,
                   stop_waiting_room, game_thread, game, tick_counter, game_over, running,
                   pc, closing, tick_rate, agent_call, game_duration_seconds, selected, cmds, last,
                   game2, handler, times>>

\* AIClient.run: the test `while self.running and self.room.running` fails
ai_client_exit(ai_name) ==
    /\ ai_name \in DOMAIN game.ai_clients
    /\ ai_name \notin teardown.left
    /\ ai_name \in teardown.stopped \/ ~running
    /\ teardown' = [teardown EXCEPT !.left = @ \cup {ai_name}]
    /\ UNCHANGED <<roomVars, game, tick_counter, tick_rate, server, agent_call, game_duration_seconds,
                   selected, cmds, last, game2, handler, times>>

\* the names a bot of the room can have
BotNames ==
    {Agents[i] : i \in 1..Len(Agents)} \cup {Suffixed(Agents[i]) : i \in 1..Len(Agents)}

RemoveNext ==
    \/ \E addr \in ClientAddrs, nickname \in HumanNames, game_mode \in GameModes :
          handle_new_client(addr, nickname, game_mode)
    \/ \E time_up \in BOOLEAN : broadcast_waiting_room(time_up)
    \/ enter_update
    \/ leave_update
    \/ send_state
    \/ end_game
    \/ \E addr \in ClientAddrs :
          /\ human_clients_count(SelectSeq(clients, LAMBDA c : c.addr # addr)) > 0
          /\ handle_client_disconnection(addr)
    \/ \E addr \in ClientAddrs : remove_room_signal(addr)
    \/ join_game_thread
    \/ stop_ai_clients
    \/ delete_room
    \/ \E ai_name \in BotNames : ai_client_exit(ai_name)

\* the steps of the game thread inside a tick, as they show on pc
UpdateLeft == pc = "in_update" /\ pc' = "updated"
StateSent == pc = "updated" /\ pc' = "loop"

RemoveSpec ==
    /\ RemoveInit
    /\ [][RemoveNext]_vars
    /\ WF_pc(UpdateLeft) /\ WF_pc(StateSent) /\ WF_pc(LoopExit)
    /\ WF_teardown(join_game_thread)
    /\ WF_teardown(stop_ai_clients)
    /\ WF_teardown(delete_room)
    /\ \A ai_name \in BotNames : WF_teardown(ai_client_exit(ai_name))

\* C33: once remove_room has set room.running to False the game thread
\* starts no tick from the loop header and reaches the end of run_game;
\* remove_room waits in join for at most the timeout; when it has returned
\* every bot of the room is stopped and the room is out of the registry;
\* and every call of remove_room returns, after which the thread of every
\* bot leaves its loop.
C33_CooperativeShutdown ==
    /\ [][~running => ~(pc = "loop" /\ pc' = "in_update")]_vars
    /\ [](teardown.waited <= JoinTimeout)
    /\ [](teardown.pc = "returned" =>
             /\ ~in_rooms
             /\ DOMAIN game.ai_clients \subseteq teardown.stopped)
    /\ (teardown.pc # "idle") ~>
          /\ teardown.pc = "returned"
          /\ DOMAIN game.ai_clients \subseteq teardown.left
          /\ game_thread => pc = "ended"

\* remove_room has returned from a room with a bot, after a wait in join,
\* the game thread has ended and the bot's thread has left its loop.
C33_Witness ==
    /\ teardown.pc = "returned"
    /\ teardown.waited > 0
    /\ DOMAIN game.ai_clients # {}
    /\ DOMAIN game.ai_clients \subseteq teardown.left
    /\ pc = "ended"

(***************************************************************************)
(* AgentSpec: a match of one player and one bot, between two ticks: the     *)
(* calls of BaseAgent.update_agent for the bot are taken step by step,     *)
(* beside the worker threads they start.                                   *)
(***************************************************************************)

\* the calls of update_agent in a match
AgentCalls == 3

OnePlayer == <<TwoPlayers[1]>>
OneMode == [a \in {TwoPlayers[1].addr} |-> "agent"]

\* the room after start_game with one player and one bot of the pool
AgentStarted(r) ==
    /\ clients = r.clients
    /\ client_game_modes = OneMode
    /\ addr_to_name = [a \in DOMAIN OneMode |-> "ann"]
    /\ has_clients = TRUE
    /\ used_nicknames = r.used
    /\ stop_waiting_room = TRUE
    /\ game_thread = TRUE
    /\ game = [r.g EXCEPT !.k = 0]
    /\ tick_counter = 0
    /\ game_over = FALSE
    /\ running = TRUE
    /\ in_rooms = TRUE
    /\ pc = "loop"
    /\ closing = FALSE
    /\ last = Did("start_game")
    /\ handler = NoHandler
    /\ times = Times(0, 0)

AgentInit ==
    /\ \E zone \in Zones : \E rs \in Streams2 :
         AgentStarted(start_game(REFERENCE_TICK_RATE, zone, OnePlayer, OneMode, {},
                                 <<1>>, "none", rs))
    /\ tick_rate = REFERENCE_TICK_RATE
    /\ game_duration_seconds = GameDurationSeconds
    /\ selected = NoSelection
    /\ teardown = NoTeardown
    /\ server = Registered(clients)
    /\ agent_call = NoAgentCall
    /\ cmds = AgentCalls
    /\ game2 = NoGame

\* the worker of the call in progress, while it has not written its result
CurrentWorkers == {w \in agent_call.running : w.of = agent_call.call}

\* update_agent up to worker_thread.start(): self._move_result = None and a
\* worker whose get_move computes mv
update_agent_start(ai_name, mv) ==
    /\ game_thread /\ running /\ in_rooms
    /\ agent_call.pc = "idle"
    /\ cmds > 0
    /\ ai_name \in DOMAIN game.ai_clients
    /\ ~game.ai_clients[ai_name].is_dead /\ contains_train(game, ai_name)
    /\ agent_call' = [agent_call EXCEPT
                        !.pc = "join",
                        !.call = @ + 1,
                        !.move_result = [mv |-> "none", of |-> 0],
                        !.running = @ \cup {[of |-> agent_call.call + 1, mv |-> mv]}]
    /\ cmds' = cmds - 1
    /\ UNCHANGED <<roomVars, game, tick_counter, tick_rate, server, game_duration_seconds,
                   selected, teardown, last, game2, handler, times>>

\* BaseAgent._run_get_move: self._move_result = self.get_move(), the store
worker_write(w) ==
    /\ w \in agent_call.running
    /\ agent_call' = [agent_call EXCEPT
                        !.move_result = [mv |-> w.mv, of |-> w.of],
                        !.running = @ \ {w}]
    /\ UNCHANGED <<roomVars, game, tick_counter, tick_rate, server, game_duration_seconds,
                   selected, teardown, cmds, last, game2, handler, times>>

\* worker_thread.join(self.timeout) returns. A worker still alive has
\* exceeded the deadline: _terminate_thread asks for a SystemExit in it, which
\* ends it (killed) or not (get_move goes on, or the request failed), and
\* update_agent returns.
join_returns(killed) ==
    /\ agent_call.pc = "join"
    /\ agent_call' =
          IF CurrentWorkers = {}
          THEN [agent_call EXCEPT !.pc = "read"]
          ELSE [agent_call EXCEPT
                  !.pc = "idle",
                  !.timed_out = @ \cup {agent_call.call},
                  !.running = IF killed THEN @ \ CurrentWorkers ELSE @]
    /\ UNCHANGED <<roomVars, game, tick_counter, tick_rate, server, game_duration_seconds,
                   selected, teardown, cmds, last, game2, handler, times>>

\* update_agent from `if self._move_result is None` to its end
read_result(ai_name) ==
    /\ agent_call.pc = "read"
    /\ ai_name \in DOMAIN game.ai_clients
    /\ game' = update_agent(game, ai_name, agent_call.move_result.mv)
    /\ agent_call' = [agent_call EXCEPT
                        !.pc = "idle",
                        !.applied = IF agent_call.move_result.mv = "none" THEN @
                                    ELSE @ \cup {agent_call.move_result.of}]
    /\ last' = [Did("update_agent") EXCEPT !.who = ai_name,
                                          !.mv = agent_call.move_result.mv]
    /\ UNCHANGED <<roomVars, tick_counter, tick_rate, server, game_duration_seconds,
                   selected, teardown, cmds, game2, handler, times>>

AgentNext ==
    \/ \E ai_name \in BotNames, mv \in AgentMoves : update_agent_start(ai_name, mv)
    \/ \E w \in agent_call.running : worker_write(w)
    \/ \E killed \in BOOLEAN : join_returns(killed)
    \/ \E ai_name \in BotNames : read_result(ai_name)

AgentSpec == AgentInit /\ [][AgentNext]_vars

\* C34: no move computed by a get_move that ran into the deadline of its
\* update_agent call is ever sent to the game, by that call or a later one.
C34_LateMoveNeverApplied ==
    agent_call.applied \cap agent_call.timed_out = {}

\* ---------------------------------------------------------------------------
\* the head at pos is inside the game area
InArea(pos) ==
    /\ 0 <= pos[1] /\ pos[1] < GAME_WIDTH
    /\ 0 <= pos[2] /\ pos[2] < GAME_HEIGHT

\* C35: in every state of a started game, and so at the end of every tick,
\* the head of every live train is inside the game area:
\* 0 <= x < game_width and 0 <= y < game_height.
C35_LiveHeadsInArea ==
    game_thread =>
        \A n \in DOMAIN game.trains :
            game.trains[n].alive => InArea(game.trains[n].position)

\* A tick has just ended in which a live train moved onto the first row of
\* the area.
C35_Witness ==
    /\ game_thread
    /\ last.op = "tick"
    /\ \E n \in DOMAIN game.trains :
          /\ game.trains[n].alive
          /\ game.trains[n].position[2] = 0
          /\ game.trains[n].move_timer = 0

(***************************************************************************)
(* C36: live heads are on distinct cells                                   *)
(***************************************************************************)
\* C36: at the end of every tick and after every spawn or respawn, no two
\* live trains have their heads on the same cell.
C36_LiveHeadsDistinct ==
    game_thread =>
        \A n1, n2 \in DOMAIN game.trains :
            (/\ n1 # n2
             /\ game.trains[n1].alive
             /\ game.trains[n2].alive)
            => game.trains[n1].position # game.trains[n2].position

(***************************************************************************)
(* C37: a respawn request for a live train                                 *)
(***************************************************************************)
\* the step is the handling of a respawn request of n
RespawnRequested(n) ==
    /\ cmds' = cmds - 1
    /\ last'.op = "respawn"
    /\ last'.who = n

\* C37: a respawn request for a nickname whose train is currently alive
\* leaves that train unchanged: position, wagons, direction, score and boost
\* state are the same after the request and no new train replaces it.
C37_RespawnOfLiveTrainIsNoOp ==
    [][\A n \in DOMAIN game.trains :
         (RespawnRequested(n) /\ game.trains[n].alive)
         => /\ n \in DOMAIN game'.trains
            /\ game'.trains[n] = game.trains[n]]_vars

(***************************************************************************)
(* C38: the nicknames of the bots                                          *)
(***************************************************************************)
\* C38: every bot nickname returned by get_available_ai_name differs from
\* the nickname of every other participant of the room, human or bot, so
\* adding a bot's train never overwrites an existing train in game.trains.
C38_BotNicknamesFresh ==
    in_rooms =>
        \A i, j \in 1..Len(clients) :
            (i # j /\ IsAI(clients[j].addr))
            => clients[i].nickname # clients[j].nickname

(***************************************************************************)
(* LeaveSpec: clients join a room, are pinged and answer, and are          *)
(* disconnected, before and after the waiting-room thread starts the game  *)
(***************************************************************************)
LeaveCmds == 2

LeaveInit ==
    /\ RoomInit
    /\ tick_rate = REFERENCE_TICK_RATE
    /\ game_duration_seconds = GameDurationSeconds
    /\ selected = NoSelection
    /\ teardown = NoTeardown
    /\ server = NoServer
    /\ agent_call = NoAgentCall
    /\ cmds = LeaveCmds

\* Server.ping_clients, part 2, for one client of the room
ping_clients(addr) ==
    /\ in_rooms
    /\ HasAddr(clients, addr) /\ ~IsAI(addr)
    /\ addr \notin server.disconnected_clients
    /\ addr \notin server.ping_responses
    /\ server' = [server EXCEPT !.ping_responses = @ \cup {addr}]
    /\ UNCHANGED <<roomVars, game, tick_counter, tick_rate, agent_call,
                   game_duration_seconds, selected, teardown, cmds, last, game2,
                   handler, times>>

\* Server.process_message for a message of type "pong" of a client that
\* is awaited
pong(addr) ==
    /\ addr \in server.ping_responses
    /\ addr \notin server.disconnected_clients
    /\ server' = [server EXCEPT !.client_last_activity = @ \cup {addr},
                                !.ping_responses = @ \ {addr}]
    /\ UNCHANGED <<roomVars, game, tick_counter, tick_rate, agent_call,
                   game_duration_seconds, selected, teardown, cmds, last, game2,
                   handler, times>>

LeaveNext ==
    \/ \E addr \in ClientAddrs, nickname \in HumanNames, game_mode \in GameModes :
          handle_new_client(addr, nickname, game_mode)
    \/ \E time_up \in BOOLEAN : broadcast_waiting_room(time_up)
    \/ \E addr \in ClientAddrs : ping_clients(addr)
    \/ \E addr \in ClientAddrs : pong(addr)
    \/ \E addr \in ClientAddrs : handle_client_disconnection(addr)

LeaveSpec == LeaveInit /\ [][LeaveNext]_vars

\* the step is Server.handle_client_disconnection for addr, a client of a
\* room whose game has not started and in which another human remains
EarlyDisconnection(addr) ==
    /\ ~game_thread
    /\ HasAddr(clients, addr)
    /\ human_clients_count(SelectSeq(clients, LAMBDA c : c.addr # addr)) > 0
    /\ addr \notin server.disconnected_clients
    /\ addr \in server'.disconnected_clients

\* C39: handle_client_disconnection for a known client of a room whose game
\* has not started yet, while another human client remains in that room,
\* removes the client from the roster and clears the server's sciper,
\* game-mode, activity and ping entries for its address, without an error
\* escaping the handler.
C39_EarlyDisconnectionCleansUp ==
    [][\A addr \in ClientAddrs :
         EarlyDisconnection(addr)
         => /\ ~HasAddr(clients', addr)
            /\ addr \notin server'.addr_to_sciper
            /\ addr \notin server'.addr_to_game_mode
            /\ addr \notin server'.client_last_activity
            /\ addr \notin server'.ping_responses
            /\ last'.ok]_vars

(***************************************************************************)
(* C40: best scores                                                        *)
(***************************************************************************)
\* self.best_scores.get(n, 0)
BestScoreOf(g, n) == IF n \in DOMAIN g.best_scores THEN g.best_scores[n] ELSE 0

\* every train's score is at most the best score recorded for its nickname
BestCoversScore ==
    game_thread =>
        \A n \in DOMAIN game.trains : BestScoreOf(game, n) >= game.trains[n].score

\* a recorded best score stays recorded and does not decrease
BestNeverDecreases ==
    [][game_thread =>
         \A n \in DOMAIN game.best_scores :
             /\ n \in DOMAIN game'.best_scores
             /\ game'.best_scores[n] >= game.best_scores[n]]_vars

\* C40: in every reachable state, for every nickname n that has a train in
\* the game, best_scores.get(n, 0) >= trains[n].score, and a recorded best
\* score never decreases, across deliveries, death and respawn, and the
\* renaming of a train when a bot replaces a disconnected player.
C40_BestScoreBoundsScore == []BestCoversScore /\ BestNeverDecreases

====
